---- MODULE Spec2Model ----
(***************************************************************************)
(* Model of the TSheets MCP server's job-code hierarchy resolution, the    *)
(* timesheet enrichment pipeline (TSheetsApi.getTimesheetsForDateRange),   *)
(* the project report (getProjectReport) and the Sage aggregation          *)
(* (formatSage).                                                           *)
(*                                                                         *)
(* Conventions.  A string is a sequence of one-character strings, so that  *)
(* toLowerCase, includes, parseInt and join are computed and not assumed.  *)
(* An optional number that is absent is 0 and an optional string that is   *)
(* absent is <<>>: the code tests both by truthiness (if (jobcodeId),      *)
(* if (current.parent_id), current.short_code ? ...), which does not tell  *)
(* undefined from 0 or "".  A JavaScript object keyed by ids is a function *)
(* whose domain is a set of ids; Object.values of it lists the values in   *)
(* ascending id order.  Hours are counted in minutes and two-decimal       *)
(* values in hundredths, so that rounding is exact.                        *)
(***************************************************************************)
EXTENDS Integers, Sequences, FiniteSets, TLC

\* ------------------------------------------------------------------ bounds
\* Job-code ids are 1..MaxId.
MaxId == 3
\* Upstream holds at most MaxTs timesheets in the enrichment input family.
MaxTs == 2

JobIds == 1..MaxId

\* ------------------------------------------------------------- JS helpers
LowerLetters ==
  <<"a", "b", "c", "d", "e", "f", "g", "h", "i", "j", "k", "l", "m",
    "n", "o", "p", "q", "r", "s", "t", "u", "v", "w", "x", "y", "z">>
UpperLetters ==
  <<"A", "B", "C", "D", "E", "F", "G", "H", "I", "J", "K", "L", "M",
    "N", "O", "P", "Q", "R", "S", "T", "U", "V", "W", "X", "Y", "Z">>

\* String.prototype.toLowerCase on one character.
LowerChar(c) ==
  IF \E i \in 1..26 : UpperLetters[i] = c
  THEN LowerLetters[CHOOSE i \in 1..26 : UpperLetters[i] = c]
  ELSE c

toLowerCase(s) == [i \in 1..Len(s) |-> LowerChar(s[i])]

\* String.prototype.includes.
includes(hay, needle) ==
  \E i \in 1..(Len(hay) + 1) :
    /\ i + Len(needle) - 1 <= Len(hay)
    /\ SubSeq(hay, i, i + Len(needle) - 1) = needle

DigitChars == {"0", "1", "2", "3", "4", "5", "6", "7", "8", "9"}

DigitVal(c) ==
  CASE c = "0" -> 0 [] c = "1" -> 1 [] c = "2" -> 2 [] c = "3" -> 3
    [] c = "4" -> 4 [] c = "5" -> 5 [] c = "6" -> 6 [] c = "7" -> 7
    [] c = "8" -> 8 [] OTHER -> 9

\* NaN is modelled as -1 (no reference of the model is negative).
NaN == 0 - 1

RECURSIVE ParseDigits(_, _, _)
ParseDigits(s, i, acc) ==
  IF i <= Len(s) /\ s[i] \in DigitChars
  THEN ParseDigits(s, i + 1, 10 * acc + DigitVal(s[i]))
  ELSE acc

\* parseInt(s, 10): the value of the longest prefix of digits, NaN if there
\* is none.
parseInt(s) ==
  IF Len(s) >= 1 /\ s[1] \in DigitChars THEN ParseDigits(s, 1, 0) ELSE NaN

RECURSIVE DigitsOf(_)
DigitsOf(n) ==
  IF n < 10 THEN <<CHOOSE c \in DigitChars : DigitVal(c) = n>>
  ELSE DigitsOf(n \div 10) \o <<CHOOSE c \in DigitChars : DigitVal(c) = n % 10>>

\* Number.prototype.toString for a non-negative integer.
toString(n) == DigitsOf(n)

\* The elements of a finite set of integers in ascending order.
RECURSIVE SortedSeq(_)
SortedSeq(S) ==
  IF S = {} THEN <<>>
  ELSE LET m == CHOOSE x \in S : \A y \in S : x <= y
       IN <<m>> \o SortedSeq(S \ {m})

Range(s) == {s[i] : i \in 1..Len(s)}

\* Array.prototype.flatMap / concatenation of a sequence of sequences.
RECURSIVE Flatten(_)
Flatten(ss) == IF ss = <<>> THEN <<>> ELSE Head(ss) \o Flatten(Tail(ss))

\* [...new Set(xs)]: the distinct elements in order of first occurrence.
RECURSIVE Unique(_)
Unique(xs) ==
  IF xs = <<>> THEN <<>>
  ELSE LET init == Unique(SubSeq(xs, 1, Len(xs) - 1))
           x == xs[Len(xs)]
       IN IF x \in Range(init) THEN init ELSE Append(init, x)

\* ------------------------------------------------------------ job codes
\* Names and short codes of the job codes, by id.
JobNames == << <<"A">>, <<"B">>, <<"a", "2">> >>
JobShortCodes == << <<"1", "0", "0">>, <<"2", "0", "0">>, <<>> >>

NameOf(id) == JobNames[((id - 1) % Len(JobNames)) + 1]
ShortCodeOf(id) == JobShortCodes[((id - 1) % Len(JobShortCodes)) + 1]

Jobcode(id, parent) ==
  [id |-> id, parent_id |-> parent, name |-> NameOf(id), short_code |-> ShortCodeOf(id)]

\* Every job-code directory over JobIds: any set of ids, each with no parent
\* (0) or any id as its parent (absent from the directory, itself, or in a
\* cycle included: the upstream data is not validated for that).
Directories ==
  UNION {{[j \in S |-> Jobcode(j, p[j])] : p \in [S -> 0..MaxId]} : S \in SUBSET JobIds}

\* Object.values(allJobcodes)
Values(m) == [i \in 1..Cardinality(DOMAIN m) |-> m[SortedSeq(DOMAIN m)[i]]]

\* A call of getAllDescendants whose parentId is already on its own call
\* path recurses for ever: the engine ends it with a RangeError (maximum
\* call stack size exceeded) and no value is returned.  ok = FALSE is that
\* outcome.
RECURSIVE Descend(_, _, _)
RECURSIVE DescendAll(_, _, _)
Descend(parentId, allJobcodes, path) ==
  IF parentId \in path THEN [ok |-> FALSE, ids |-> <<>>]
  ELSE
    LET directChildren == SelectSeq(Values(allJobcodes), LAMBDA jc : jc.parent_id = parentId)
        descendants == [i \in 1..Len(directChildren) |-> directChildren[i].id]
        rest == DescendAll(directChildren, allJobcodes, path \cup {parentId})
    IN [ok |-> rest.ok, ids |-> descendants \o rest.ids]

DescendAll(children, allJobcodes, path) ==
  IF children = <<>> THEN [ok |-> TRUE, ids |-> <<>>]
  ELSE
    LET first == Descend(Head(children).id, allJobcodes, path)
        others == DescendAll(Tail(children), allJobcodes, path)
    IN IF first.ok THEN [ok |-> others.ok, ids |-> first.ids \o others.ids]
       ELSE [ok |-> FALSE, ids |-> <<>>]

\* A variant that stops at the direct children.
directChildrenOnly(parentId, allJobcodes) ==
  LET directChildren == SelectSeq(Values(allJobcodes), LAMBDA jc : jc.parent_id = parentId)
  IN [ok |-> TRUE, ids |-> [i \in 1..Len(directChildren) |-> directChildren[i].id]]

getAllDescendants(parentId, allJobcodes) == Descend(parentId, allJobcodes, {})

\* ------------------------------------------------ users, files, timesheets
\* A value that is undefined in the code (a failed lookup).
Undefined == [id |-> 0]

UserFirstNames == << <<"B", "o", "b">>, <<"A", "l">>, <<"C", "y">>, <<"D", "i">>, <<"E", "d">> >>

\* User u as upstream returns it; last_name is the id in digits.
User(u) ==
  [id |-> u,
   first_name |-> UserFirstNames[((u - 1) % Len(UserFirstNames)) + 1],
   last_name |-> toString(u)]

File(f) == [id |-> f, file_name |-> <<"f">> \o toString(f)]

\* A raw timesheet entry (TimesheetSchema); date is the day of the month of
\* its YYYY-MM-DD date, duration is in seconds.
Timesheet(id, user, job, date, duration, attached) ==
  [id |-> id, user_id |-> user, jobcode_id |-> job, date |-> date,
   duration |-> duration, notes |-> IF id % 2 = 1 THEN <<"n">> ELSE <<>>,
   attached_files |-> attached]

\* ----------------------------------------------------- project resolver
\* A variant that looks at the name only.
matchesNameOnly(jc, jobcodeName) ==
  includes(toLowerCase(jc.name), toLowerCase(jobcodeName))

\* jc.name.toLowerCase().includes(jobcodeName.toLowerCase()) ||
\* (jc.short_code && jc.short_code.toLowerCase().includes(...))
matchesName(jc, jobcodeName) ==
  \/ includes(toLowerCase(jc.name), toLowerCase(jobcodeName))
  \/ /\ jc.short_code # <<>>
     /\ includes(toLowerCase(jc.short_code), toLowerCase(jobcodeName))

\* [id] followed by getAllDescendants(id) (the direct-id and the numeric
\* shortcut branches); kind "overflow" when the recursion does not return.
idWithDescendants(id, allJobcodes) ==
  LET d == getAllDescendants(id, allJobcodes)
  IN IF d.ok THEN [kind |-> "filter", ids |-> <<id>> \o d.ids]
     ELSE [kind |-> "overflow", ids |-> <<>>]

\* The free-text branch: the ids of the name matches followed by the
\* descendants of each.
nameMatchFilter(jobcodeName, allJobcodes) ==
  LET matchingJobcodes == SelectSeq(Values(allJobcodes), LAMBDA jc : matchesName(jc, jobcodeName))
      parentIds == [i \in 1..Len(matchingJobcodes) |-> matchingJobcodes[i].id]
      ds == [i \in 1..Len(parentIds) |-> getAllDescendants(parentIds[i], allJobcodes)]
  IN IF Len(matchingJobcodes) = 0 THEN [kind |-> "notfound", ids |-> <<>>]
     ELSE IF \E i \in 1..Len(ds) : ~ds[i].ok THEN [kind |-> "overflow", ids |-> <<>>]
     ELSE [kind |-> "filter",
           ids |-> parentIds \o Flatten([i \in 1..Len(ds) |-> ds[i].ids])]

\* A variant without the numeric-id shortcut: the reference is matched as
\* text only.
jobcodeFilterByText(jobcodeId, jobcodeName, allJobcodes) ==
  IF jobcodeId # 0 THEN
    IF jobcodeId \notin DOMAIN allJobcodes THEN [kind |-> "notfound", ids |-> <<>>]
    ELSE idWithDescendants(jobcodeId, allJobcodes)
  ELSE IF jobcodeName # <<>> THEN nameMatchFilter(jobcodeName, allJobcodes)
  ELSE [kind |-> "none", ids |-> <<>>]

\* A variant that, without reference, asks for the job codes of the
\* directory instead of asking without constraint.
jobcodeFilterOfDirectory(jobcodeId, jobcodeName, allJobcodes) ==
  IF jobcodeId # 0 \/ jobcodeName # <<>>
  THEN jobcodeFilterByText(jobcodeId, jobcodeName, allJobcodes)
  ELSE [kind |-> "filter", ids |-> SortedSeq(DOMAIN allJobcodes)]

\* Lines 64-134 of getTimesheetsForDateRange: the value of jobcodeFilter.
\* kind is "none" (jobcodeFilter stays undefined), "filter", "notfound"
\* (return []) or "overflow" (getAllDescendants threw).
jobcodeFilterOf(jobcodeId, jobcodeName, allJobcodes) ==
  IF jobcodeId # 0 THEN
    IF jobcodeId \notin DOMAIN allJobcodes THEN [kind |-> "notfound", ids |-> <<>>]
    ELSE idWithDescendants(jobcodeId, allJobcodes)
  ELSE IF jobcodeName # <<>> THEN
    LET numericId == parseInt(jobcodeName)
    IN IF numericId # NaN /\ numericId \in DOMAIN allJobcodes
       THEN idWithDescendants(numericId, allJobcodes)
       ELSE nameMatchFilter(jobcodeName, allJobcodes)
  ELSE [kind |-> "none", ids |-> <<>>]

\* ------------------------------------------------------------ enrichment
Lookup(m, id) == IF id \in DOMAIN m THEN m[id] ELSE Undefined

\* A variant that keeps a placeholder for a file the map lacks.
filesWithPlaceholders(ts, files) ==
  [i \in 1..Len(ts.attached_files) |-> Lookup(files, ts.attached_files[i])]

\* files: (ts.attached_files || []).map(id => files[id]).filter(defined)
filesOf(ts, files) ==
  LET mapped == [i \in 1..Len(ts.attached_files) |-> Lookup(files, ts.attached_files[i])]
  IN SelectSeq(mapped, LAMBDA f : f # Undefined)

\* A variant that gives every record the user of the first timesheet.
enrichedWithFirstUser(timesheets, users, allJobcodes, files) ==
  [i \in 1..Len(timesheets) |->
     [base |-> timesheets[i],
      user |-> Lookup(users, timesheets[1].user_id),
      jobcode |-> Lookup(allJobcodes, timesheets[i].jobcode_id),
      files |-> filesOf(timesheets[i], files)]]

\* Step 6: one enriched record per timesheet.
enrichedTimesheets(timesheets, users, allJobcodes, files) ==
  [i \in 1..Len(timesheets) |->
     [base |-> timesheets[i],
      user |-> Lookup(users, timesheets[i].user_id),
      jobcode |-> Lookup(allJobcodes, timesheets[i].jobcode_id),
      files |-> filesOf(timesheets[i], files)]]

\* Object.assign(target, source)
Assign(target, source) ==
  [k \in DOMAIN target \cup DOMAIN source |->
     IF k \in DOMAIN source THEN source[k] ELSE target[k]]

\* ----------------------------------------------------------- path builder
\* ' > ' stands for the separator: a space, U+203A, a space.
Separator == <<" ", ">", " ">>
Unknown == <<"U", "n", "k", "n", "o", "w", "n">>

\* parts.join(separator)
RECURSIVE join(_, _)
join(parts, sep) ==
  IF parts = <<>> THEN <<>>
  ELSE IF Len(parts) = 1 THEN parts[1]
  ELSE parts[1] \o sep \o join(Tail(parts), sep)

\* A variant that leaves the short code out.
displayNameWithoutShortCode(current) == current.name

\* current.short_code ? `${current.name} ${current.short_code}` : current.name
displayName(current) ==
  IF current.short_code # <<>> THEN current.name \o <<" ">> \o current.short_code
  ELSE current.name

\* The while loop of buildJobPath in getProjectReport and in the job-code
\* search tool.  The loop has no exit other than a node without parent_id
\* or a parent id the map lacks, so a walk that comes back to a map entry
\* it has already visited (seen) never leaves the loop: hung = TRUE, and
\* no value is returned.
RECURSIVE walkParents(_, _, _, _)
walkParents(current, parts, seen, jobcodeMap) ==
  IF current = Undefined THEN [hung |-> FALSE, parts |-> parts]
  ELSE
    LET parts2 == <<displayName(current)>> \o parts
    IN IF current.parent_id # 0 THEN
         IF current.parent_id \in seen THEN [hung |-> TRUE, parts |-> parts2]
         ELSE walkParents(Lookup(jobcodeMap, current.parent_id), parts2,
                          seen \cup {current.parent_id}, jobcodeMap)
       ELSE [hung |-> FALSE, parts |-> parts2]

\* The walk from current meets a node without parent_id within n hops.
RECURSIVE endsAtRoot(_, _, _)
endsAtRoot(current, n, jobcodeMap) ==
  IF current = Undefined THEN FALSE
  ELSE IF current.parent_id = 0 \/ n = 0 THEN TRUE
  ELSE endsAtRoot(Lookup(jobcodeMap, current.parent_id), n - 1, jobcodeMap)

\* A variant that gives up the path when a parent is missing.
buildJobPathWholeOnly(jobcode, jobcodeMap) ==
  IF jobcode = Undefined \/ ~endsAtRoot(jobcode, MaxId + 1, jobcodeMap)
  THEN [hung |-> FALSE, path |-> Unknown]
  ELSE LET w == walkParents(jobcode, <<>>, {}, jobcodeMap)
       IN [hung |-> w.hung, path |-> join(w.parts, Separator)]

\* buildJobPath of getProjectReport.
buildJobPath(jobcode, jobcodeMap) ==
  IF jobcode = Undefined THEN [hung |-> FALSE, path |-> Unknown]
  ELSE LET w == walkParents(jobcode, <<>>, {}, jobcodeMap)
       IN [hung |-> w.hung, path |-> join(w.parts, Separator)]

\* buildJobPath of the job-code search tool (src/tools/search-jobcodes.ts).
buildJobPathSearch(jobcode, jobcodeMap) ==
  LET w == walkParents(jobcode, <<>>, {}, jobcodeMap)
  IN [hung |-> w.hung, path |-> join(w.parts, Separator)]

\* buildJobPath of the hierarchical job-code search, with its hop limit.
maxDepth == 10

RECURSIVE walkParentsBounded(_, _, _, _)
walkParentsBounded(current, parts, depth, jobcodeMap) ==
  IF current # Undefined /\ depth < maxDepth THEN
    LET parts2 == <<displayName(current)>> \o parts
    IN IF current.parent_id # 0 THEN
         LET parent == Lookup(jobcodeMap, current.parent_id)
         IN IF parent = Undefined THEN parts2
            ELSE walkParentsBounded(parent, parts2, depth + 1, jobcodeMap)
       ELSE parts2
  ELSE parts

buildJobPathHier(jobcode, jobcodeMap) ==
  [hung |-> FALSE, path |-> join(walkParentsBounded(jobcode, <<>>, 0, jobcodeMap), Separator)]

\* ------------------------------------------------------- string ordering
Letters == {LowerLetters[i] : i \in 1..26} \cup {UpperLetters[i] : i \in 1..26}

\* Primary collation weight of a character: white space, punctuation,
\* digits, then letters without regard to case.
LetterWeight ==
  [c \in Letters |-> 20 + (CHOOSE i \in 1..26 : LowerLetters[i] = LowerChar(c))]

PrimaryKey(c) ==
  IF c \in Letters THEN LetterWeight[c]
  ELSE IF c \in DigitChars THEN 10 + DigitVal(c)
  ELSE IF c = " " THEN 1
  ELSE 2

RECURSIVE ComparePrimary(_, _)
ComparePrimary(a, b) ==
  IF a = <<>> /\ b = <<>> THEN 0
  ELSE IF a = <<>> THEN 0 - 1
  ELSE IF b = <<>> THEN 1
  ELSE IF PrimaryKey(Head(a)) < PrimaryKey(Head(b)) THEN 0 - 1
  ELSE IF PrimaryKey(Head(a)) > PrimaryKey(Head(b)) THEN 1
  ELSE ComparePrimary(Tail(a), Tail(b))

\* Strings equal up to case: the first difference decides, lower case first.
RECURSIVE CompareCase(_, _)
CompareCase(a, b) ==
  IF a = <<>> \/ b = <<>> THEN 0
  ELSE IF Head(a) = Head(b) THEN CompareCase(Tail(a), Tail(b))
  ELSE IF Head(a) = LowerChar(Head(a)) THEN 0 - 1
  ELSE 1

\* String.prototype.localeCompare: negative, 0 or positive.
localeCompare(a, b) ==
  LET p == ComparePrimary(a, b) IN IF p # 0 THEN p ELSE CompareCase(a, b)

\* The sequence s rearranged so that element i comes at position pos[i].
placeAt(s, pos) == [k \in 1..Len(s) |-> s[CHOOSE i \in 1..Len(s) : pos[i] = k]]

\* Element j goes before element i when the comparator gives c for (j, i):
\* the sort is stable.
goesBefore(c, j, i) == c < 0 \/ (c = 0 /\ j < i)

\* Array.prototype.sort, given the results cmp[j][i] of the comparator on
\* elements j and i.
sort(s, cmp) ==
  placeAt(s, [i \in 1..Len(s) |->
                1 + Cardinality({j \in 1..Len(s) : j # i /\ goesBefore(cmp[j][i], j, i)})])

\* String.prototype.trim
RECURSIVE trimStart(_)
trimStart(s) == IF s # <<>> /\ Head(s) = " " THEN trimStart(Tail(s)) ELSE s
RECURSIVE trimEnd(_)
trimEnd(s) ==
  IF s # <<>> /\ s[Len(s)] = " " THEN trimEnd(SubSeq(s, 1, Len(s) - 1)) ELSE s
trim(s) == trimEnd(trimStart(s))

\* The YYYY-MM-DD string of day d of the month the model's dates lie in.
dateString(d) ==
  <<"2", "0", "2", "5", "-", "0", "1", "-">> \o (IF d < 10 THEN <<"0">> ELSE <<>>) \o toString(d)

\* ------------------------------------------------------------ the report
\* Math.floor(timesheet.duration / 3600)
hoursOf(duration) == duration \div 3600

\* Math.round((durationHours - hours) * 60).  The seconds beyond the full
\* hours are rounded to the nearest minute; for a remainder of exactly half
\* a minute the floating-point product decides, and the durations of the
\* model avoid that case.
minutesOf(duration) == ((duration % 3600) + 30) \div 60

\* parseFloat(x.toFixed(2)) of x = m / 60 hours, in hundredths.  100 m / 60
\* has fractional part 0, 1/3 or 2/3, never one half.
toFixed2(m) == (10 * m + 3) \div 6

\* `${first_name} ${last_name}`.trim(), 'Unknown' without user
employeeNameOf(user) ==
  IF user = Undefined THEN Unknown
  ELSE trim(user.first_name \o <<" ">> \o user.last_name)

\* One element of transformedActivities.
transformActivity(timesheet, jobcodeMap) ==
  [id |-> toString(timesheet.base.id),
   date |-> timesheet.base.date,
   employeeName |-> employeeNameOf(timesheet.user),
   jobName |-> buildJobPath(timesheet.jobcode, jobcodeMap).path,
   hours |-> hoursOf(timesheet.base.duration),
   minutes |-> minutesOf(timesheet.base.duration),
   description |-> timesheet.base.notes,
   attachments |-> [i \in 1..Len(timesheet.files) |->
                      [id |-> toString(timesheet.files[i].id),
                       fileName |-> timesheet.files[i].file_name]]]

\* The transformation never ends: buildJobPath hangs for some timesheet.
transformHangs(timesheets, jobcodeMap) ==
  \E i \in 1..Len(timesheets) : buildJobPath(timesheets[i].jobcode, jobcodeMap).hung

RECURSIVE SumSeq(_)
SumSeq(s) == IF s = <<>> THEN 0 ELSE Head(s) + SumSeq(Tail(s))

\* activity.hours + activity.minutes / 60, in minutes
activityMinutes(a) == 60 * a.hours + a.minutes

\* The report of getProjectReport for a non-empty list of timesheets.
\* totalHours is in hundredths of an hour.
projectReport(timesheets, jobcodeMap) ==
  LET transformedActivities ==
        [i \in 1..Len(timesheets) |-> transformActivity(timesheets[i], jobcodeMap)]
      totalMinutes ==
        SumSeq([i \in 1..Len(transformedActivities) |-> activityMinutes(transformedActivities[i])])
  IN [totalEntries |-> Len(transformedActivities),
      totalHours |-> toFixed2(totalMinutes),
      timeActivities |-> transformedActivities,
      attachments |-> Flatten([i \in 1..Len(transformedActivities) |->
                                 transformedActivities[i].attachments])]

\* A variant of the empty report whose total is not a number of hours.
emptyReportWithoutTotal ==
  [totalEntries |-> 0, totalHours |-> NaN, timeActivities |-> <<>>, attachments |-> <<>>]

\* The report returned when no timesheet was found.
emptyReport ==
  [totalEntries |-> 0, totalHours |-> 0, timeActivities |-> <<>>, attachments |-> <<>>]

\* ---------------------------------------------------------- aggregation
\* A date or an employee name that the caller's report lacks (undefined).
NoDate == 0
NoString == <<"undefined">>

\* An argument of localeCompare is converted to a string: undefined gives
\* "undefined".
UndefinedText == <<"u", "n", "d", "e", "f", "i", "n", "e", "d">>
stringArg(x) == IF x = NoString THEN UndefinedText ELSE x
dateArg(d) == IF d = NoDate THEN UndefinedText ELSE dateString(d)

\* A variant that compares the employee names only.
compareEntriesByName(a, b) ==
  localeCompare(stringArg(a.employeeName), stringArg(b.employeeName))

\* The comparator of entries.sort in formatSage, when it returns.
compareEntries(a, b) ==
  IF a.date # b.date THEN localeCompare(dateArg(a.date), dateArg(b.date))
  ELSE localeCompare(stringArg(a.employeeName), stringArg(b.employeeName))

\* The comparator throws a TypeError: localeCompare is read from undefined.
compareEntriesThrows(a, b) ==
  IF a.date # b.date THEN a.date = NoDate ELSE a.employeeName = NoString

compareByName(a, b) == localeCompare(stringArg(a.name), stringArg(b.name))
compareByDate(a, b) == localeCompare(dateArg(a.date), dateArg(b.date))

\* entries.sort(...), employeeSummaries.sort(...), dailySummaries.sort(...)
sortEntries(s) ==
  sort(s, [j \in 1..Len(s) |-> [i \in 1..Len(s) |-> compareEntries(s[j], s[i])]])
\* A variant that leaves the summaries in the order of the map.
keepInsertionOrder(s) == s
sortByName(s) ==
  sort(s, [j \in 1..Len(s) |-> [i \in 1..Len(s) |-> compareByName(s[j], s[i])]])
sortByDate(s) ==
  sort(s, [j \in 1..Len(s) |-> [i \in 1..Len(s) |-> compareByDate(s[j], s[i])]])

\* The entries of formatSage before they are sorted.  hours are in minutes,
\* decimalHours in hundredths of an hour.
sageEntries(rawReport) ==
  [i \in 1..Len(rawReport.timeActivities) |->
     LET activity == rawReport.timeActivities[i]
     IN [date |-> activity.date,
         employeeName |-> activity.employeeName,
         jobName |-> activity.jobName,
         hours |-> activityMinutes(activity),
         decimalHours |-> toFixed2(activityMinutes(activity)),
         notes |-> activity.description]]

\* A variant that adds up the entries' decimalHours, each already rounded.
groupTotalOfRounded(groupEntries) ==
  SumSeq([i \in 1..Len(groupEntries) |-> groupEntries[i].decimalHours])

\* parseFloat(groupEntries.reduce((sum, e) => sum + e.hours, 0).toFixed(2)),
\* in hundredths of an hour.
groupTotalHours(groupEntries) ==
  toFixed2(SumSeq([i \in 1..Len(groupEntries) |-> groupEntries[i].hours]))

\* employeeMap as a list, in order of first occurrence of the names.
employeeGroups(entries, names) ==
  [k \in 1..Len(names) |->
     LET employeeEntries == SelectSeq(entries, LAMBDA e : e.employeeName = names[k])
     IN [name |-> names[k],
         totalHours |-> groupTotalHours(employeeEntries),
         entries |-> employeeEntries]]

\* A variant that files an entry under its date and under the next date.
dailyGroupsOverlapping(entries, dates) ==
  [k \in 1..Len(dates) |->
     LET dailyEntries == SelectSeq(entries, LAMBDA e :
                           e.date = dates[k] \/ e.date = dates[(k % Len(dates)) + 1])
     IN [date |-> dates[k],
         entries |-> dailyEntries,
         totalHours |-> groupTotalHours(dailyEntries)]]

\* dailyMap as a list, in order of first occurrence of the dates.
dailyGroups(entries, dates) ==
  [k \in 1..Len(dates) |->
     LET dailyEntries == SelectSeq(entries, LAMBDA e : e.date = dates[k])
     IN [date |-> dates[k],
         entries |-> dailyEntries,
         totalHours |-> groupTotalHours(dailyEntries)]]

\* What formatSage returns, given the sorted entries.
sageReport(rawReport, entries) ==
  [totalHours |-> rawReport.totalHours,
   totalEntries |-> rawReport.totalEntries,
   entries |-> entries,
   employeeSummaries |->
     sortByName(employeeGroups(entries,
                               Unique([i \in 1..Len(entries) |-> entries[i].employeeName]))),
   dailySummaries |->
     sortByDate(dailyGroups(entries, Unique([i \in 1..Len(entries) |-> entries[i].date])))]

\* Which element a sort passes first to its comparator is up to the engine:
\* a sort may throw when the comparator throws for some ordered pair.
entriesSortMayThrow(s) ==
  \E i, j \in 1..Len(s) : i # j /\ compareEntriesThrows(s[i], s[j])
nameSortMayThrow(names) == Len(names) >= 2 /\ \E k \in 1..Len(names) : names[k] = NoString
dateSortMayThrow(dates) == Len(dates) >= 2 /\ \E k \in 1..Len(dates) : dates[k] = NoDate

\* formatSage(rawReport) may end in a TypeError.
formatSageMayThrow(rawReport) ==
  \/ entriesSortMayThrow(rawReport.timeActivities)
  \/ nameSortMayThrow(Unique([i \in 1..Len(rawReport.timeActivities) |->
                                rawReport.timeActivities[i].employeeName]))
  \/ dateSortMayThrow(Unique([i \in 1..Len(rawReport.timeActivities) |->
                                rawReport.timeActivities[i].date]))

\* formatSage(rawReport)
formatSage(rawReport) ==
  sageReport(rawReport, sortEntries(sageEntries(rawReport)))

\* ------------------------------------------------------------ the state
VARIABLES
  upJobcodes,    \* upstream: every job code, by id
  upHidden,      \* upstream: the ids its bulk listing leaves out
  upTimesheets,  \* upstream: the timesheets of the date range, by ascending id
  upUsers,       \* upstream: the ids of the users it knows
  upFiles,       \* upstream: the ids of the files it knows
  upSupp,        \* upstream: which supplemental_data the timesheet response carries
  pc,            \* position of the tool call
  args,          \* jobcodeId and projectName of the call
  allJobcodes,   \* getTimesheetsForDateRange: the directory
  jobcodeFilter, \* getTimesheetsForDateRange: the resolved filter
  timesheets,    \* getTimesheetsForDateRange: the fetched timesheets
  users,         \* getTimesheetsForDateRange: the user map
  files,         \* getTimesheetsForDateRange: the file map
  enriched,      \* the value getTimesheetsForDateRange returned
  error,         \* the call that failed, "none" without failure
  calls,         \* the upstream calls issued so far
  jobcodeMap,    \* getProjectReport: the directory of the path builder
  missing,       \* getProjectReport: missing parent ids still to fetch
  report,        \* the value getProjectReport returned
  sage,          \* the value formatSage returned
  pathJob,       \* path builders: the job code a path is built for
  pathOut,       \* path builders: what each builder returned
  lookup,        \* single-match workflows: the candidates and what became of them
  tool,          \* server: the name of the tool of the call being handled
  services,      \* server: the TSheets services were constructed at start
  callNo,        \* server: how many tool calls have been received
  responses,     \* server: the responses sent so far
  tokens,        \* token file: the stored tokens
  now,           \* the clock
  refreshers,    \* concurrent tool calls that refresh the tokens
  requests       \* concurrent calls of getTimesheetsForDateRange

vars ==
  <<upJobcodes, upHidden, upTimesheets, upUsers, upFiles, upSupp, pc, args,
    allJobcodes, jobcodeFilter, timesheets, users, files, enriched, error,
    calls, jobcodeMap, missing, report, sage, pathJob, pathOut,
    lookup, tool, services, callNo, responses, tokens, now,
    refreshers, requests>>

pathVars == <<pathJob, pathOut>>

serverVars == <<tool, services, callNo, responses>>

tokenVars == <<tokens, now>>

concVars == <<refreshers, requests>>

toolVars == <<lookup, serverVars, tokenVars, concVars>>

upVars == <<upJobcodes, upHidden, upTimesheets, upUsers, upFiles, upSupp>>

EmptyMap == <<>>
NoFilter == [kind |-> "none", ids |-> <<>>]
NoSage ==
  [totalHours |-> 0, totalEntries |-> 0, entries |-> <<>>,
   employeeSummaries |-> <<>>, dailySummaries |-> <<>>]

\* No path builder has run.
NotBuilt == [hung |-> FALSE, path |-> <<>>, built |-> FALSE]
NoPaths == [report |-> NotBuilt, search |-> NotBuilt, hier |-> NotBuilt]

\* The free-text project references of the model: none, a number, a name
\* in upper case, a text no job code contains, a part of short codes.
References == {<<>>, <<"2">>, <<"A">>, <<"z">>, <<"0", "0">>}

\* No single-match workflow has run.
NoLookup == [kind |-> "none", candidates |-> <<>>, listed |-> <<>>, id |-> 0]

\* The token file does not exist.
NoTokens == [stored |-> FALSE, expiresAt |-> 0, refreshToken |-> FALSE]

\* No tool calls run concurrently.
NoRefreshers ==
  [client |-> "none", file |-> "missing", store |-> 0, issued |-> 0, exchanged |-> {},
   reused |-> FALSE, proc |-> <<>>]
NoRequests == <<>>

InitNoConc ==
  /\ refreshers = NoRefreshers
  /\ requests = NoRequests

\* No single-match workflow, server or token file is under study.
InitNoServer ==
  /\ lookup = NoLookup
  /\ tool = "none"
  /\ services = TRUE
  /\ callNo = 0
  /\ responses = <<>>
  /\ tokens = NoTokens
  /\ now = 0

InitNoTool == InitNoConc /\ InitNoServer

\* The state of a tool call before it starts.
InitIdle ==
  /\ pc = "idle"
  /\ args = [jobcodeId |-> 0, jobcodeName |-> <<>>]
  /\ allJobcodes = EmptyMap
  /\ jobcodeFilter = NoFilter
  /\ timesheets = <<>>
  /\ users = EmptyMap
  /\ files = EmptyMap
  /\ enriched = <<>>
  /\ error = "none"
  /\ calls = <<>>
  /\ missing = <<>>
  /\ report = emptyReport
  /\ sage = NoSage

InitCall == InitNoTool /\ InitIdle

\* No path builder is under study.
InitNoPath ==
  /\ jobcodeMap = EmptyMap
  /\ pathJob = Undefined
  /\ pathOut = NoPaths

\* Input family of the resolver: every directory, at most one timesheet.
InitResolve ==
  /\ upJobcodes \in Directories
  /\ upHidden = {}
  /\ upTimesheets \in
       {<<>>} \cup {<<Timesheet(1, 1, j, 1, 5400, a)>> : j \in JobIds, a \in {<<>>, <<1, 2>>}}
  /\ upUsers = {1}
  /\ upFiles = {1, 2}
  /\ upSupp = [users |-> TRUE, jobcodes |-> TRUE]

\* Input family of the enrichment: the chain 1 <- 2 <- 3 of job codes, of
\* which the bulk listing may leave out ancestors, and MaxTs timesheets.
InitEnrich ==
  /\ upJobcodes = [j \in 1..3 |-> Jobcode(j, j - 1)]
  /\ upHidden \in SUBSET {1, 2}
  /\ upTimesheets =
       [k \in 1..MaxTs |->
          Timesheet(k, ((k - 1) % 2) + 1, 3 - ((k - 1) % 2), ((k - 1) % 2) + 1, 1200 * k,
                    IF k % 2 = 1 THEN <<2, 1>> ELSE <<>>)]
  /\ upUsers \in {{1}, {1, 2}}
  /\ upFiles \in {{1}, {1, 2}}
  /\ upSupp \in [users : BOOLEAN, jobcodes : BOOLEAN]

Init == InitCall /\ InitNoPath /\ (InitResolve \/ InitEnrich)

\* ------------------------------------------------------------- upstream
\* GET /jobcodes?active=both
upstreamListing == [j \in (DOMAIN upJobcodes) \ upHidden |-> upJobcodes[j]]

\* GET /timesheets with jobcode_ids (none: no constraint)
upstreamTimesheets(filter) ==
  SelectSeq(upTimesheets,
            LAMBDA ts : filter.kind = "none" \/ ts.jobcode_id \in Range(filter.ids))

\* supplemental_data.jobcodes / users of a timesheet response
supplementalJobcodes(ts) ==
  [j \in {ts[i].jobcode_id : i \in 1..Len(ts)} \cap DOMAIN upJobcodes |-> upJobcodes[j]]
supplementalUsers(ts) ==
  [u \in {ts[i].user_id : i \in 1..Len(ts)} \cap upUsers |-> User(u)]

\* GET /users?ids=, GET /files?ids=, GET /jobcodes?ids=
upstreamUsers(ids) == [u \in Range(ids) \cap upUsers |-> User(u)]
upstreamFiles(ids) == [f \in Range(ids) \cap upFiles |-> File(f)]
upstreamJobcodesById(ids) == [j \in Range(ids) \cap DOMAIN upJobcodes |-> upJobcodes[j]]

Call(op, ids, filtered) == [op |-> op, ids |-> ids, filtered |-> filtered]

\* ---------------------------------------------- getTimesheetsForDateRange
\* getProjectReport is called and getTimesheetsForDateRange asks for the
\* job codes.
CallGetProjectReport ==
  /\ pc = "idle"
  /\ \E id \in 0..MaxId, name \in References :
       args' = [jobcodeId |-> id, jobcodeName |-> name]
  /\ pc' = "getJobcodes"
  /\ calls' = Append(calls, Call("getJobcodes", <<>>, FALSE))
  /\ UNCHANGED <<upVars, toolVars, pathVars, allJobcodes, jobcodeFilter, timesheets, users, files,
                 enriched, error, jobcodeMap, missing, report, sage>>

\* A call of the API client throws (transport or upstream error) where the
\* code has no handler: the tool call fails with it.
Throws(at, op) ==
  /\ pc = at
  /\ pc' = "failed"
  /\ error' = op
  /\ UNCHANGED <<upVars, toolVars, pathVars, args, allJobcodes, jobcodeFilter, timesheets, users, files,
                 enriched, calls, jobcodeMap, missing, report, sage>>

JobcodesFail == Throws("getJobcodes", "getJobcodes")

\* The job codes arrive: the directory is built and the filter resolved
\* (steps 1 and 2 up to the timesheet request).
JobcodesResponse ==
  /\ pc = "getJobcodes"
  /\ LET loaded == upstreamListing
         f == jobcodeFilterOf(args.jobcodeId, args.jobcodeName, loaded)
     IN /\ allJobcodes' = loaded
        /\ CASE f.kind = "notfound" ->
                  /\ pc' = "tsReturned"
                  /\ UNCHANGED <<jobcodeFilter, error, calls>>
             [] f.kind = "overflow" ->
                  /\ pc' = "failed"
                  /\ error' = "RangeError"
                  /\ UNCHANGED <<jobcodeFilter, calls>>
             [] OTHER ->
                  /\ pc' = "getTimesheets"
                  /\ jobcodeFilter' = f
                  /\ calls' = Append(calls, Call("getTimesheets", f.ids, f.kind = "filter"))
                  /\ UNCHANGED error
  /\ UNCHANGED <<upVars, toolVars, pathVars, args, timesheets, users, files, enriched,
                 jobcodeMap, missing, report, sage>>

\* A variant in which a failed timesheet request is sent a second time.
TimesheetsFailRetried ==
  /\ pc = "getTimesheets"
  /\ Len(calls) = 2
  /\ calls' = Append(calls, calls[2])
  /\ UNCHANGED <<upVars, toolVars, pathVars, pc, args, allJobcodes, jobcodeFilter, timesheets, users,
                 files, enriched, error, jobcodeMap, missing, report, sage>>

TimesheetsFail == Throws("getTimesheets", "getTimesheets")

\* Step 5 up to the file request, or step 6 when no timesheet has an
\* attachment.
FilesStep(ts, us, jcs) ==
  LET timesheetsWithFiles == SelectSeq(ts, LAMBDA t : Len(t.attached_files) > 0)
      fileIds == Flatten([i \in 1..Len(timesheetsWithFiles) |-> timesheetsWithFiles[i].attached_files])
  IN IF Len(timesheetsWithFiles) > 0
     THEN /\ pc' = "getFiles"
          /\ calls' = Append(calls, Call("getFiles", Unique(fileIds), FALSE))
          /\ UNCHANGED enriched
     ELSE /\ pc' = "tsReturned"
          /\ enriched' = enrichedTimesheets(ts, us, jcs, EmptyMap)
          /\ UNCHANGED calls

\* A variant that asks for the user of the first timesheet only.
firstUserId(ts) == <<ts[1].user_id>>

\* userIds: [...new Set(timesheets.map(ts => ts.user_id))]
userIds(ts) == Unique([i \in 1..Len(ts) |-> ts[i].user_id])

\* The timesheets arrive (steps 2 to 4).
TimesheetsResponse ==
  /\ pc = "getTimesheets"
  /\ LET ts == upstreamTimesheets(jobcodeFilter)
         merged == IF upSupp.jobcodes THEN Assign(allJobcodes, supplementalJobcodes(ts))
                   ELSE allJobcodes
     IN IF Len(ts) = 0
        THEN /\ pc' = "tsReturned"
             /\ UNCHANGED <<allJobcodes, timesheets, users, enriched, calls>>
        ELSE /\ timesheets' = ts
             /\ allJobcodes' = merged
             /\ IF upSupp.users
                THEN /\ users' = supplementalUsers(ts)
                     /\ FilesStep(ts, supplementalUsers(ts), merged)
                ELSE /\ pc' = "getUsers"
                     /\ calls' = Append(calls, Call("getUsers", userIds(ts), FALSE))
                     /\ UNCHANGED <<users, enriched>>
  /\ UNCHANGED <<upVars, toolVars, pathVars, args, jobcodeFilter, files, error, jobcodeMap, missing, report, sage>>

UsersFail == Throws("getUsers", "getUsers")

\* The users arrive (step 4, the fallback fetch).
UsersResponse ==
  /\ pc = "getUsers"
  /\ LET us == upstreamUsers(calls[Len(calls)].ids)
     IN /\ users' = us
        /\ FilesStep(timesheets, us, allJobcodes)
  /\ UNCHANGED <<upVars, toolVars, pathVars, args, allJobcodes, jobcodeFilter, timesheets, files, error,
                 jobcodeMap, missing, report, sage>>

\* The files arrive (step 5) and the records are combined (step 6).
FilesResponse ==
  /\ pc = "getFiles"
  /\ LET fs == upstreamFiles(calls[Len(calls)].ids)
     IN /\ files' = fs
        /\ enriched' = enrichedTimesheets(timesheets, users, allJobcodes, fs)
  /\ pc' = "tsReturned"
  /\ UNCHANGED <<upVars, toolVars, pathVars, args, allJobcodes, jobcodeFilter, timesheets, users, error,
                 calls, jobcodeMap, missing, report, sage>>

\* A variant in which the failure of getFiles is not caught.
FilesFailPropagates == Throws("getFiles", "getFiles")

\* getFiles throws, or its response does not validate: the catch block of
\* step 5 logs it and the records are combined without files.
FilesFail ==
  /\ pc = "getFiles"
  /\ enriched' = enrichedTimesheets(timesheets, users, allJobcodes, EmptyMap)
  /\ pc' = "tsReturned"
  /\ UNCHANGED <<upVars, toolVars, pathVars, args, allJobcodes, jobcodeFilter, timesheets, users, files, error,
                 calls, jobcodeMap, missing, report, sage>>

\* -------------------------------------------------------- getProjectReport
\* getTimesheetsForDateRange has returned: the empty report, or the request
\* for all job codes.
ReportContinue ==
  /\ pc = "tsReturned"
  /\ IF Len(enriched) = 0
     THEN /\ report' = emptyReport
          /\ pc' = "reported"
          /\ UNCHANGED calls
     ELSE /\ pc' = "getAllJobcodes"
          /\ calls' = Append(calls, Call("getJobcodes", <<>>, FALSE))
          /\ UNCHANGED report
  /\ UNCHANGED <<upVars, toolVars, pathVars, args, allJobcodes, jobcodeFilter, timesheets, users, files,
                 enriched, error, jobcodeMap, missing, sage>>

AllJobcodesFail == Throws("getAllJobcodes", "getJobcodes")

\* The parent ids the timesheets' job codes name and the map lacks, in the
\* insertion order of the Set.
missingParentIds(ts, map) ==
  LET withParent == SelectSeq(ts, LAMBDA t :
                      /\ t.jobcode # Undefined
                      /\ t.jobcode.parent_id # 0
                      /\ t.jobcode.parent_id \notin DOMAIN map)
  IN Unique([i \in 1..Len(withParent) |-> withParent[i].jobcode.parent_id])

\* The paths are built and the report is returned, unless a path walk
\* never ends.
FinishReport(map) ==
  IF transformHangs(enriched, map)
  THEN pc' = "hung" /\ UNCHANGED report
  ELSE pc' = "reported" /\ report' = projectReport(enriched, map)

\* The next missing parent is searched by id, or the report is finished.
NextParent(rest, map) ==
  /\ missing' = rest
  /\ jobcodeMap' = map
  /\ IF Len(rest) > 0
     THEN /\ pc' = "searchById"
          /\ calls' = Append(calls, Call("searchJobcodes", <<Head(rest)>>, TRUE))
          /\ UNCHANGED report
     ELSE /\ FinishReport(map)
          /\ UNCHANGED calls

\* All job codes arrive: the map is built and the missing parents found.
AllJobcodesResponse ==
  /\ pc = "getAllJobcodes"
  /\ NextParent(missingParentIds(enriched, upstreamListing), upstreamListing)
  /\ UNCHANGED <<upVars, toolVars, pathVars, args, allJobcodes, jobcodeFilter, timesheets, users, files,
                 enriched, error, sage>>

\* TSheetsApi.searchJobcodes, the fetch by id: a job code is returned and
\* set in the map.
SearchByIdFound ==
  /\ pc = "searchById"
  /\ LET results == upstreamJobcodesById(<<Head(missing)>>)
     IN /\ DOMAIN results # {}
        /\ NextParent(Tail(missing), Assign(jobcodeMap, results))
  /\ UNCHANGED <<upVars, toolVars, pathVars, args, allJobcodes, jobcodeFilter, timesheets, users, files,
                 enriched, error, sage>>

\* TSheetsApi.searchJobcodes, the fetch by id returns nothing or throws
\* (caught): all job codes are requested for the client-side search.
SearchByIdMiss ==
  /\ pc = "searchById"
  /\ pc' = "searchList"
  /\ calls' = Append(calls, Call("searchJobcodes", <<>>, FALSE))
  /\ UNCHANGED <<upVars, toolVars, pathVars, args, allJobcodes, jobcodeFilter, timesheets, users, files,
                 enriched, error, jobcodeMap, missing, report, sage>>

SearchListFail == Throws("searchList", "searchJobcodes")

\* TSheetsApi.searchJobcodes, the client-side search for the id in digits
\* among the names, the short codes and the ids.
searchMatches(search, all) ==
  SelectSeq(Values(all), LAMBDA jc :
    \/ includes(toLowerCase(jc.name), toLowerCase(search))
    \/ (jc.short_code # <<>> /\ includes(toLowerCase(jc.short_code), toLowerCase(search)))
    \/ toString(jc.id) = search)

SearchListResponse ==
  /\ pc = "searchList"
  /\ LET matches == searchMatches(toString(Head(missing)), upstreamListing)
         found == [j \in {matches[i].id : i \in 1..Len(matches)} |-> upstreamListing[j]]
     IN NextParent(Tail(missing), Assign(jobcodeMap, found))
  /\ UNCHANGED <<upVars, toolVars, pathVars, args, allJobcodes, jobcodeFilter, timesheets, users, files,
                 enriched, error, sage>>

\* format_sage on the report.
FormatSage ==
  /\ pc = "reported"
  /\ sage' = formatSage(report)
  /\ pc' = "formatted"
  /\ UNCHANGED <<upVars, toolVars, pathVars, args, allJobcodes, jobcodeFilter, timesheets, users, files,
                 enriched, error, calls, jobcodeMap, missing, report>>

\* format_sage throws while sorting.
FormatSageThrows ==
  /\ formatSageMayThrow(report)
  /\ Throws("reported", "TypeError")

Next ==
  \/ CallGetProjectReport
  \/ JobcodesFail
  \/ JobcodesResponse
  \/ TimesheetsFail
  \/ TimesheetsResponse
  \/ UsersFail
  \/ UsersResponse
  \/ FilesFail
  \/ FilesResponse
  \/ ReportContinue
  \/ AllJobcodesFail
  \/ AllJobcodesResponse
  \/ SearchByIdFound
  \/ SearchByIdMiss
  \/ SearchListFail
  \/ SearchListResponse
  \/ FormatSage

Spec == Init /\ [][Next]_vars

\* ------------------------------------------------- the path builders alone
\* Chains of job codes have at most MaxChain nodes.
MaxChain == 12

\* The chain 1 <- 2 <- ... <- n; its root has no parent (root = 0) or the
\* leaf n as parent, which closes a cycle.
ChainDirectory(n, root) == [j \in 1..n |-> Jobcode(j, IF j = 1 THEN root ELSE j - 1)]

PathDirectories ==
  Directories \cup
    UNION {{ChainDirectory(n, root) : root \in {0, n}} : n \in 1..MaxChain}

\* A directory and one of its job codes; no tool call is running.
InitPath ==
  /\ InitCall
  /\ upJobcodes = EmptyMap
  /\ upHidden = {}
  /\ upTimesheets = <<>>
  /\ upUsers = {}
  /\ upFiles = {}
  /\ upSupp = [users |-> TRUE, jobcodes |-> TRUE]
  /\ jobcodeMap \in PathDirectories
  /\ pathJob \in {jobcodeMap[j] : j \in DOMAIN jobcodeMap}
  /\ pathOut = NoPaths

Built(p) == [hung |-> p.hung, path |-> p.path, built |-> TRUE]

pipelineVars ==
  <<pc, args, allJobcodes, jobcodeFilter, timesheets, users, files, enriched, error,
    calls, missing, report, sage>>

\* jobName of a report row: buildJobPath(timesheet.jobcode).
BuildReportPath ==
  /\ ~pathOut.report.built
  /\ pathOut' = [pathOut EXCEPT !.report = Built(buildJobPath(pathJob, jobcodeMap))]
  /\ UNCHANGED <<upVars, toolVars, pipelineVars, jobcodeMap, pathJob>>

\* full_path of a search result of the job-code search tool.
BuildSearchPath ==
  /\ ~pathOut.search.built
  /\ pathOut' = [pathOut EXCEPT !.search = Built(buildJobPathSearch(pathJob, jobcodeMap))]
  /\ UNCHANGED <<upVars, toolVars, pipelineVars, jobcodeMap, pathJob>>

\* full_path of a search result of the hierarchical job-code search.
BuildHierPath ==
  /\ ~pathOut.hier.built
  /\ pathOut' = [pathOut EXCEPT !.hier = Built(buildJobPathHier(pathJob, jobcodeMap))]
  /\ UNCHANGED <<upVars, toolVars, pipelineVars, jobcodeMap, pathJob>>

NextPath == BuildReportPath \/ BuildSearchPath \/ BuildHierPath

SpecPath == InitPath /\ [][NextPath]_vars

\* ------------------------------------------- the report and aggregation alone
\* Upstream holds at most MaxEntries timesheets in the aggregation family.
MaxEntries == 5

\* Days of the month and durations (seconds) of those timesheets: 10
\* minutes, and one second less than an hour.
AggDates == {1, 2}
AggDurations == {600, 3599}

KeyLeq(a, b) ==
  \/ a.user_id < b.user_id
  \/ a.user_id = b.user_id /\ a.date < b.date
  \/ a.user_id = b.user_id /\ a.date = b.date /\ a.duration <= b.duration

\* The timesheets that may follow the list s: the totals do not depend on
\* the order of the timesheets nor on which user is which, so the lists are
\* taken in ascending order of (user, date, duration), user ids without gap.
NextTimesheets(s) ==
  LET maxUser == IF s = <<>> THEN 0 ELSE s[Len(s)].user_id
      all == {Timesheet(Len(s) + 1, u, 1, d, sec, <<>>) :
                u \in 1..(maxUser + 1), d \in AggDates, sec \in AggDurations}
  IN {t \in all : s = <<>> \/ KeyLeq(s[Len(s)], t)}

RECURSIVE AggLists(_)
AggLists(n) ==
  IF n = 0 THEN {<<>>}
  ELSE LET prev == AggLists(n - 1)
       IN prev \cup UNION {{Append(s, t) : t \in NextTimesheets(s)} :
                            s \in {p \in prev : Len(p) = n - 1}}

\* getTimesheetsForDateRange has returned, without project filter, the
\* timesheets of an upstream that holds one job code and up to MaxEntries
\* timesheets without attachments.
InitAgg ==
  /\ InitNoTool
  /\ upJobcodes = [j \in {1} |-> Jobcode(1, 0)]
  /\ upHidden = {}
  /\ upTimesheets \in AggLists(MaxEntries)
  /\ upUsers = 1..MaxEntries
  /\ upFiles = {}
  /\ upSupp = [users |-> TRUE, jobcodes |-> TRUE]
  /\ pc = "tsReturned"
  /\ args = [jobcodeId |-> 0, jobcodeName |-> <<>>]
  /\ allJobcodes = upstreamListing
  /\ jobcodeFilter = NoFilter
  /\ timesheets = upTimesheets
  /\ users = supplementalUsers(upTimesheets)
  /\ files = EmptyMap
  /\ enriched = enrichedTimesheets(upTimesheets, supplementalUsers(upTimesheets),
                                   upstreamListing, EmptyMap)
  /\ error = "none"
  /\ calls = <<Call("getJobcodes", <<>>, FALSE), Call("getTimesheets", <<>>, FALSE)>>
  /\ missing = <<>>
  /\ report = emptyReport
  /\ sage = NoSage
  /\ InitNoPath

NextAgg == ReportContinue \/ AllJobcodesResponse \/ FormatSage

SpecAgg == InitAgg /\ [][NextAgg]_vars

\* ------------------------------------------------------ format_sage alone
\* The caller's report has at most MaxActivities time activities.
MaxActivities == 3

SageDates == {NoDate, 1, 2}
SageNames == {NoString, <<"B", "o", "b">>, <<"A", "l", "i", "c", "e">>}

\* Time activity number i of a caller's report: 1 h 30 min.
SageActivity(i, d, n) ==
  [id |-> toString(i), date |-> d, employeeName |-> n, jobName |-> <<"A">>,
   hours |-> 1, minutes |-> 30, description |-> toString(i), attachments |-> <<>>]

Malformed(a) == a.date = NoDate \/ a.employeeName = NoString

\* The lists of time activities, in every order, of which at most one
\* lacks its date or its employee name.
SageLists ==
  UNION {{s \in [1..n -> SageDates \X SageNames] :
            Cardinality({i \in 1..n : s[i][1] = NoDate \/ s[i][2] = NoString}) <= 1} :
         n \in 0..MaxActivities}

\* format_sage is called with a report of the caller.
InitSage ==
  /\ InitNoTool
  /\ upJobcodes = EmptyMap
  /\ upHidden = {}
  /\ upTimesheets = <<>>
  /\ upUsers = {}
  /\ upFiles = {}
  /\ upSupp = [users |-> TRUE, jobcodes |-> TRUE]
  /\ pc = "reported"
  /\ args = [jobcodeId |-> 0, jobcodeName |-> <<>>]
  /\ allJobcodes = EmptyMap
  /\ jobcodeFilter = NoFilter
  /\ timesheets = <<>>
  /\ users = EmptyMap
  /\ files = EmptyMap
  /\ enriched = <<>>
  /\ error = "none"
  /\ calls = <<>>
  /\ missing = <<>>
  /\ \E s \in SageLists :
       report = [totalEntries |-> Len(s),
                 totalHours |-> toFixed2(90 * Len(s)),
                 timeActivities |-> [i \in 1..Len(s) |-> SageActivity(i, s[i][1], s[i][2])],
                 attachments |-> <<>>]
  /\ sage = NoSage
  /\ InitNoPath

NextSage == FormatSage \/ FormatSageThrows

SpecSage == InitSage /\ [][NextSage]_vars

\* ------------------------------------------- the single-match workflows
\* What a workflow found: the candidates its search returned, what the
\* failure message lists, and the id it resolved to (0: none).
Found(kind, candidates, listed, id) ==
  [kind |-> kind, candidates |-> candidates, listed |-> listed, id |-> id]

\* `${jc.id}: ${jc.name}`
idAndName(jc) == toString(jc.id) \o <<":", " ">> \o jc.name

\* getProjectDetails is called.  Without jobcodeId and projectName it
\* throws; with a jobcodeId the details are requested; with a projectName
\* TSheetsApi.searchJobcodes starts, by id when parseInt gives a number.
CallGetProjectDetails ==
  /\ pc = "idle"
  /\ \E id \in 0..MaxId, name \in References :
       /\ args' = [jobcodeId |-> id, jobcodeName |-> name]
       /\ IF id = 0 /\ name = <<>>
          THEN pc' = "failed" /\ error' = "required" /\ UNCHANGED calls
          ELSE /\ UNCHANGED error
               /\ IF id # 0
                  THEN /\ pc' = "details"
                       /\ calls' = Append(calls, Call("getProjectWithDetails", <<id>>, TRUE))
                  ELSE IF parseInt(name) # NaN
                  THEN /\ pc' = "lookupById"
                       /\ calls' = Append(calls, Call("searchJobcodes", <<parseInt(name)>>, TRUE))
                  ELSE /\ pc' = "lookupList"
                       /\ calls' = Append(calls, Call("searchJobcodes", <<>>, FALSE))
       /\ lookup' = IF id # 0 THEN Found("resolved", <<>>, <<>>, id) ELSE lookup
  /\ UNCHANGED <<upVars, serverVars, tokenVars, pathVars, concVars, allJobcodes, jobcodeFilter,
                 timesheets, users, files, enriched, jobcodeMap, missing, report, sage>>

\* A variant of SingleMatch that takes the first of several job codes.
SingleMatchTakesFirst(jobcodes) ==
  /\ UNCHANGED error
  /\ IF Len(jobcodes) = 0
     THEN /\ lookup' = Found("notFound", jobcodes, <<>>, 0)
          /\ pc' = "detailed"
          /\ UNCHANGED calls
     ELSE /\ lookup' = Found("resolved", jobcodes, <<>>, jobcodes[1].id)
          /\ pc' = "details"
          /\ calls' = Append(calls, Call("getProjectWithDetails", <<jobcodes[1].id>>, TRUE))

\* What getProjectDetails does with the job codes searchJobcodes returned:
\* none and several are returned as success: false, one is taken.
SingleMatch(jobcodes) ==
  /\ UNCHANGED error
  /\ CASE Len(jobcodes) = 0 ->
            /\ lookup' = Found("notFound", jobcodes, <<>>, 0)
            /\ pc' = "detailed"
            /\ UNCHANGED calls
       [] Len(jobcodes) > 1 ->
            /\ lookup' = Found("ambiguous", jobcodes,
                               [i \in 1..Len(jobcodes) |-> idAndName(jobcodes[i])], 0)
            /\ pc' = "detailed"
            /\ UNCHANGED calls
       [] OTHER ->
            /\ lookup' = Found("resolved", jobcodes, <<>>, jobcodes[1].id)
            /\ pc' = "details"
            /\ calls' = Append(calls, Call("getProjectWithDetails", <<jobcodes[1].id>>, TRUE))

\* TSheetsApi.searchJobcodes, the fetch by id returns a job code.
LookupByIdFound ==
  /\ pc = "lookupById"
  /\ LET results == upstreamJobcodesById(<<parseInt(args.jobcodeName)>>)
     IN /\ DOMAIN results # {}
        /\ SingleMatch(Values(results))
  /\ UNCHANGED <<upVars, serverVars, tokenVars, pathVars, concVars, args, allJobcodes, jobcodeFilter,
                 timesheets, users, files, enriched, jobcodeMap, missing, report, sage>>

\* The fetch by id returns nothing or throws (caught): all job codes are
\* requested.
LookupByIdMiss ==
  /\ pc = "lookupById"
  /\ pc' = "lookupList"
  /\ calls' = Append(calls, Call("searchJobcodes", <<>>, FALSE))
  /\ UNCHANGED <<upVars, toolVars, pathVars, args, allJobcodes, jobcodeFilter, timesheets,
                 users, files, enriched, error, jobcodeMap, missing, report, sage>>

LookupListFail == Throws("lookupList", "searchJobcodes")

\* All job codes arrive and are searched for the project name.
LookupListResponse ==
  /\ pc = "lookupList"
  /\ SingleMatch(searchMatches(args.jobcodeName, upstreamListing))
  /\ UNCHANGED <<upVars, serverVars, tokenVars, pathVars, concVars, args, allJobcodes, jobcodeFilter,
                 timesheets, users, files, enriched, jobcodeMap, missing, report, sage>>

\* tsheetsApi.getProjectWithDetails(jobcodeId) throws, or returns and the
\* details are returned.
DetailsFail == Throws("details", "getProjectWithDetails")

DetailsResponse ==
  /\ pc = "details"
  /\ pc' = "detailed"
  /\ UNCHANGED <<upVars, toolVars, pathVars, args, allJobcodes, jobcodeFilter, timesheets,
                 users, files, enriched, error, calls, jobcodeMap, missing, report, sage>>

\* QuickBooks customers: Id and DisplayName.
Customer(id) == [id |-> id, name |-> NameOf(id)]

\* What a customer query may answer: any customers, by ascending Id.
CustomerLists ==
  {[i \in 1..Cardinality(S) |-> Customer(SortedSeq(S)[i])] : S \in SUBSET JobIds}

\* The QuickBooks getProjectReport is called: without job name the time
\* activities are queried at once, with one the customer of that exact
\* name is asked for.
CallQboProjectReport ==
  /\ pc = "idle"
  /\ \E name \in References :
       /\ args' = [jobcodeId |-> 0, jobcodeName |-> name]
       /\ IF name = <<>>
          THEN /\ pc' = "timeActivities"
               /\ calls' = Append(calls, Call("queryTimeActivities", <<>>, FALSE))
          ELSE /\ pc' = "customerByName"
               /\ calls' = Append(calls, Call("getCustomerByName", <<>>, TRUE))
  /\ UNCHANGED <<upVars, toolVars, pathVars, allJobcodes, jobcodeFilter, timesheets, users,
                 files, enriched, error, jobcodeMap, missing, report, sage>>

\* getCustomerByName answers: a customer of that exact name, whose time
\* activities are queried, or none, and the partial matches are asked for.
CustomerByNameResponse ==
  /\ pc = "customerByName"
  /\ \E exact \in CustomerLists :
       IF Len(exact) > 0
       THEN /\ lookup' = Found("resolved", <<exact[1]>>, <<>>, exact[1].id)
            /\ pc' = "timeActivities"
            /\ calls' = Append(calls, Call("queryTimeActivities", <<exact[1].id>>, TRUE))
       ELSE /\ UNCHANGED lookup
            /\ pc' = "searchCustomers"
            /\ calls' = Append(calls, Call("searchCustomers", <<>>, TRUE))
  /\ UNCHANGED <<upVars, serverVars, tokenVars, pathVars, concVars, args, allJobcodes, jobcodeFilter,
                 timesheets, users, files, enriched, error, jobcodeMap, missing, report, sage>>

CustomerByNameFail == Throws("customerByName", "getCustomerByName")

\* searchCustomers answers: no customer or several throw, one is taken.
SearchCustomersResponse ==
  /\ pc = "searchCustomers"
  /\ \E customers \in CustomerLists :
       CASE Len(customers) = 0 ->
              /\ lookup' = Found("notFound", customers, <<>>, 0)
              /\ pc' = "failed"
              /\ error' = "No job found"
              /\ UNCHANGED calls
         [] Len(customers) = 1 ->
              /\ lookup' = Found("resolved", customers, <<>>, customers[1].id)
              /\ pc' = "timeActivities"
              /\ calls' = Append(calls, Call("queryTimeActivities", <<customers[1].id>>, TRUE))
              /\ UNCHANGED error
         [] OTHER ->
              /\ lookup' = Found("ambiguous", customers,
                                 [i \in 1..Len(customers) |-> customers[i].name], 0)
              /\ pc' = "failed"
              /\ error' = "Multiple jobs found"
              /\ UNCHANGED calls
  /\ UNCHANGED <<upVars, serverVars, tokenVars, pathVars, concVars, args, allJobcodes, jobcodeFilter,
                 timesheets, users, files, enriched, jobcodeMap, missing, report, sage>>

SearchCustomersFail == Throws("searchCustomers", "searchCustomers")

\* queryTimeActivities throws, or answers and the report is returned.
TimeActivitiesFail == Throws("timeActivities", "queryTimeActivities")

TimeActivitiesResponse ==
  /\ pc = "timeActivities"
  /\ pc' = "detailed"
  /\ UNCHANGED <<upVars, toolVars, pathVars, args, allJobcodes, jobcodeFilter, timesheets,
                 users, files, enriched, error, calls, jobcodeMap, missing, report, sage>>

\* Every directory of job codes, of which the bulk listing may leave out
\* job code 1.
InitLookup ==
  /\ InitCall
  /\ InitNoPath
  /\ upJobcodes \in Directories
  /\ upHidden \in SUBSET {1}
  /\ upTimesheets = <<>>
  /\ upUsers = {}
  /\ upFiles = {}
  /\ upSupp = [users |-> TRUE, jobcodes |-> TRUE]

NextLookup ==
  \/ CallGetProjectDetails
  \/ LookupByIdFound
  \/ LookupByIdMiss
  \/ LookupListFail
  \/ LookupListResponse
  \/ DetailsFail
  \/ DetailsResponse
  \/ CallQboProjectReport
  \/ CustomerByNameResponse
  \/ CustomerByNameFail
  \/ SearchCustomersResponse
  \/ SearchCustomersFail
  \/ TimeActivitiesFail
  \/ TimeActivitiesResponse

SpecLookup == InitLookup /\ [][NextLookup]_vars

\* ------------------------------------------------------ the access token
\* Time is counted in minutes.  The clock of the model stops at MaxTime and
\* a tool call issues at most MaxRequests requests.
MaxTime == 8
MaxRequests == 2

\* TOKEN_EXPIRY_BUFFER_MS, in minutes.
TOKEN_EXPIRY_BUFFER_MIN == 5

\* expires_in of the token response, in minutes.
ExpiresIn == 7

StoredToken(expiresAt) == [stored |-> TRUE, expiresAt |-> expiresAt, refreshToken |-> TRUE]

\* TokenManager.loadTokens: null (FALSE) when the file is missing or the
\* token is within the buffer of its expiry.
loadTokens(file, time) ==
  file.stored /\ ~(file.expiresAt - TOKEN_EXPIRY_BUFFER_MIN <= time)

hasValidTokens(file, time) == loadTokens(file, time)
getValidAccessToken(file, time) == loadTokens(file, time)

\* TokenManager.getRefreshToken reads the file whatever the expiry.
getRefreshToken(file) == file.stored /\ file.refreshToken

\* Time passes.
Tick ==
  /\ now < MaxTime
  /\ now' = now + 1
  /\ UNCHANGED <<upVars, lookup, serverVars, tokens, pathVars, concVars, pc, args, allJobcodes,
                 jobcodeFilter, timesheets, users, files, enriched, error, calls,
                 jobcodeMap, missing, report, sage>>

\* TSheetsClient.initialize at the start of a tool call: nothing to do with
\* valid tokens, a refresh request with a refresh token, an error without.
Initialize ==
  /\ pc = "idle"
  /\ IF hasValidTokens(tokens, now)
     THEN pc' = "ready" /\ UNCHANGED error
     ELSE IF getRefreshToken(tokens)
     THEN pc' = "refreshing" /\ UNCHANGED error
     ELSE pc' = "failed" /\ error' = "No tokens found"
  /\ UNCHANGED <<upVars, toolVars, pathVars, args, allJobcodes, jobcodeFilter, timesheets,
                 users, files, enriched, calls, jobcodeMap, missing, report, sage>>

\* oauth.refreshAccessToken answers and the new tokens are saved.
RefreshResponse ==
  /\ pc = "refreshing"
  /\ tokens' = StoredToken(now + ExpiresIn)
  /\ pc' = "ready"
  /\ UNCHANGED <<upVars, lookup, serverVars, now, pathVars, concVars, args, allJobcodes, jobcodeFilter,
                 timesheets, users, files, enriched, error, calls, jobcodeMap, missing,
                 report, sage>>

RefreshFail == Throws("refreshing", "TSheets token refresh failed")

\* TSheetsClient.get: the request is sent with the stored access token, or
\* the call throws when getValidAccessToken returns null.
Get ==
  /\ pc = "ready"
  /\ Len(calls) < MaxRequests
  /\ IF getValidAccessToken(tokens, now)
     THEN /\ calls' = Append(calls, Call("get", <<>>, FALSE))
          /\ UNCHANGED <<pc, error>>
     ELSE /\ pc' = "failed"
          /\ error' = "No access token available"
          /\ UNCHANGED calls
  /\ UNCHANGED <<upVars, toolVars, pathVars, args, allJobcodes, jobcodeFilter, timesheets,
                 users, files, enriched, jobcodeMap, missing, report, sage>>

\* The tool has no further request to issue and returns.
ToolReturns ==
  /\ pc = "ready"
  /\ pc' = "detailed"
  /\ UNCHANGED <<upVars, toolVars, pathVars, args, allJobcodes, jobcodeFilter, timesheets,
                 users, files, enriched, error, calls, jobcodeMap, missing, report, sage>>

\* The token file is missing or holds tokens of any expiry.
InitToken ==
  /\ InitNoConc
  /\ pc = "idle"
  /\ args = [jobcodeId |-> 0, jobcodeName |-> <<>>]
  /\ allJobcodes = EmptyMap
  /\ jobcodeFilter = NoFilter
  /\ timesheets = <<>>
  /\ users = EmptyMap
  /\ files = EmptyMap
  /\ enriched = <<>>
  /\ error = "none"
  /\ calls = <<>>
  /\ missing = <<>>
  /\ report = emptyReport
  /\ sage = NoSage
  /\ InitNoPath
  /\ upJobcodes = EmptyMap
  /\ upHidden = {}
  /\ upTimesheets = <<>>
  /\ upUsers = {}
  /\ upFiles = {}
  /\ upSupp = [users |-> TRUE, jobcodes |-> TRUE]
  /\ lookup = NoLookup
  /\ tool = "none"
  /\ services = TRUE
  /\ callNo = 0
  /\ responses = <<>>
  /\ tokens \in {NoTokens} \cup {StoredToken(e) : e \in 0..(MaxTime + ExpiresIn)}
  /\ now = 0

NextToken == Tick \/ Initialize \/ RefreshResponse \/ RefreshFail \/ Get \/ ToolReturns

SpecToken == InitToken /\ [][NextToken]_vars

\* ------------------------------------------------------- the MCP server
\* The server of the model receives at most MaxCalls tool calls.
MaxCalls == 2

\* The tools of the model (the other cases of the switch have the shape of
\* these), and a name that is no tool.
ToolNames == {"get_project_report", "format_sage", "get_project_details"}
UnknownTool == "no_such_tool"
toolsNeedingTSheets == {"get_project_report", "get_project_details"}

\* The rawReport arguments of format_sage in the server: no activity, two
\* activities, and two of which one lacks its date.
ServerReports ==
  {[totalEntries |-> Len(s),
    totalHours |-> toFixed2(90 * Len(s)),
    timeActivities |-> [i \in 1..Len(s) |-> SageActivity(i, s[i][1], s[i][2])],
    attachments |-> <<>>] :
     s \in {<<>>,
            << <<2, <<"B", "o", "b">> >>, <<1, <<"A", "l", "i", "c", "e">> >> >>,
            << <<1, <<"B", "o", "b">> >>, <<NoDate, <<"A", "l", "i", "c", "e">> >> >>}}

\* The handler throws before the tool runs.
HandlerThrows(message) ==
  /\ pc' = "failed"
  /\ error' = message
  /\ UNCHANGED <<report, tokens>>

\* The handler of CallToolRequestSchema up to the call of the tool: the
\* check of the services, the switch on the name, the parse of the
\* arguments (valid: they pass) and, for the TSheets tools,
\* tsheetsClient.initialize() (refreshed: the token endpoint answers).
ToolCall ==
  /\ pc = "waiting"
  /\ callNo < MaxCalls
  /\ callNo' = callNo + 1
  /\ \E name \in ToolNames \cup {UnknownTool}, valid \in BOOLEAN, refreshed \in BOOLEAN,
        rawReport \in ServerReports :
       /\ tool' = name
       /\ CASE name \in toolsNeedingTSheets /\ ~services ->
                 HandlerThrows("TSheets services not initialized")
            [] name = UnknownTool -> HandlerThrows("Unknown tool")
            [] name = "format_sage" ->
                 /\ pc' = "reported"
                 /\ report' = rawReport
                 /\ UNCHANGED <<error, tokens>>
            [] ~valid -> HandlerThrows("ZodError")
            [] hasValidTokens(tokens, now) ->
                 /\ pc' = "idle"
                 /\ UNCHANGED <<error, report, tokens>>
            [] ~getRefreshToken(tokens) -> HandlerThrows("No tokens found")
            [] ~refreshed -> HandlerThrows("TSheets token refresh failed")
            [] OTHER ->
                 /\ tokens' = StoredToken(now + ExpiresIn)
                 /\ pc' = "idle"
                 /\ UNCHANGED <<error, report>>
  /\ UNCHANGED <<upVars, lookup, services, responses, now, pathVars, concVars, args, allJobcodes,
                 jobcodeFilter, timesheets, users, files, enriched, calls, jobcodeMap,
                 missing, sage>>

\* The tool the handler calls.
ServeGetProjectReport == tool = "get_project_report" /\ CallGetProjectReport
ServeGetProjectDetails == tool = "get_project_details" /\ CallGetProjectDetails
ServeFormatSage == tool = "format_sage" /\ FormatSage
ServeFormatSageThrows == tool = "format_sage" /\ FormatSageThrows

\* The tool has returned its result to the handler.
ToolReturned ==
  \/ tool = "get_project_report" /\ pc = "reported"
  \/ tool = "format_sage" /\ pc = "formatted"
  \/ tool = "get_project_details" /\ pc = "detailed"

\* The response is sent and the handler is left: the state of the call is
\* dropped.
Respond(isError, text) ==
  /\ responses' = Append(responses, [call |-> callNo, isError |-> isError, text |-> text])
  /\ pc' = "waiting"
  /\ tool' = "none"
  /\ args' = [jobcodeId |-> 0, jobcodeName |-> <<>>]
  /\ allJobcodes' = EmptyMap
  /\ jobcodeFilter' = NoFilter
  /\ timesheets' = <<>>
  /\ users' = EmptyMap
  /\ files' = EmptyMap
  /\ enriched' = <<>>
  /\ error' = "none"
  /\ calls' = <<>>
  /\ jobcodeMap' = EmptyMap
  /\ missing' = <<>>
  /\ report' = emptyReport
  /\ sage' = NoSage
  /\ lookup' = NoLookup
  /\ UNCHANGED <<upVars, services, callNo, tokenVars, pathVars, concVars>>

\* return { content: [{ type: 'text', text: JSON.stringify(result) }] }
RespondResult == ToolReturned /\ Respond(FALSE, "result")

\* catch (error): return { content: [...`Error: ${errorMessage}`], isError: true }
RespondError == pc = "failed" /\ Respond(TRUE, error)

\* The job codes 1 <- 2 <- 3, or with job code 1 under job code 3, which
\* closes a cycle; the bulk listing may leave out job code 2.
InitServer ==
  /\ InitNoConc
  /\ upJobcodes \in {[j \in 1..3 |-> Jobcode(j, IF j = 1 THEN root ELSE j - 1)] : root \in {0, 3}}
  /\ upHidden \in {{}, {2}}
  /\ upTimesheets = <<Timesheet(1, 1, 3, 1, 1200, <<2, 1>>)>>
  /\ upUsers = {1}
  /\ upFiles = {1}
  /\ upSupp \in {[users |-> b, jobcodes |-> b] : b \in BOOLEAN}
  /\ pc = "waiting"
  /\ args = [jobcodeId |-> 0, jobcodeName |-> <<>>]
  /\ allJobcodes = EmptyMap
  /\ jobcodeFilter = NoFilter
  /\ timesheets = <<>>
  /\ users = EmptyMap
  /\ files = EmptyMap
  /\ enriched = <<>>
  /\ error = "none"
  /\ calls = <<>>
  /\ missing = <<>>
  /\ report = emptyReport
  /\ sage = NoSage
  /\ InitNoPath
  /\ lookup = NoLookup
  /\ tool = "none"
  /\ services \in BOOLEAN
  /\ callNo = 0
  /\ responses = <<>>
  /\ tokens \in {NoTokens, StoredToken(0), StoredToken(ExpiresIn)}
  /\ now = 0

NextServer ==
  \/ ToolCall
  \/ ServeGetProjectReport
  \/ JobcodesFail
  \/ JobcodesResponse
  \/ TimesheetsFail
  \/ TimesheetsResponse
  \/ UsersFail
  \/ UsersResponse
  \/ FilesFail
  \/ FilesResponse
  \/ ReportContinue
  \/ AllJobcodesFail
  \/ AllJobcodesResponse
  \/ SearchByIdFound
  \/ SearchByIdMiss
  \/ SearchListFail
  \/ SearchListResponse
  \/ ServeFormatSage
  \/ ServeFormatSageThrows
  \/ ServeGetProjectDetails
  \/ LookupByIdFound
  \/ LookupByIdMiss
  \/ LookupListFail
  \/ LookupListResponse
  \/ DetailsFail
  \/ DetailsResponse
  \/ RespondResult
  \/ RespondError

SpecServer == InitServer /\ [][NextServer]_vars

\* ------------------------------------- the directory while upstream changes
\* The name and the short code a job code is given by an edit upstream.
Renamed == <<"Z">>
Recoded == <<"9">>

\* Upstream is a live service: between two requests of a pipeline run a job
\* code is given another name or another short code there.  One edit is
\* enough to tell a replaced entry from a kept one.
UpstreamEdit ==
  /\ pc \notin {"idle", "failed", "reported", "hung", "formatted"}
  /\ \A j \in DOMAIN upJobcodes :
       upJobcodes[j].name # Renamed /\ upJobcodes[j].short_code # Recoded
  /\ \E j \in DOMAIN upJobcodes :
       \/ upJobcodes' = [upJobcodes EXCEPT ![j].name = Renamed]
       \/ upJobcodes' = [upJobcodes EXCEPT ![j].short_code = Recoded]
  /\ UNCHANGED <<upHidden, upTimesheets, upUsers, upFiles, upSupp, toolVars, pathVars,
                 pc, args, allJobcodes, jobcodeFilter, timesheets, users, files,
                 enriched, error, calls, jobcodeMap, missing, report, sage>>

InitDir == InitCall /\ InitNoPath /\ InitEnrich

NextDir ==
  \/ CallGetProjectReport
  \/ JobcodesFail
  \/ JobcodesResponse
  \/ TimesheetsFail
  \/ TimesheetsResponse
  \/ UsersFail
  \/ UsersResponse
  \/ FilesFail
  \/ FilesResponse
  \/ ReportContinue
  \/ AllJobcodesFail
  \/ AllJobcodesResponse
  \/ SearchByIdFound
  \/ SearchByIdMiss
  \/ SearchListFail
  \/ SearchListResponse
  \/ UpstreamEdit

SpecDir == InitDir /\ [][NextDir]_vars

\* ------------------------------------------- concurrent token refreshes
\* Tool calls that are in flight at the same time: the handlers are async
\* functions on one event loop and interleave at every await.
MaxConcurrent == 2

Procs == 1..MaxConcurrent

\* Token pair k is the k-th pair the authorization server issued; pair 0 is
\* the pair in the token file at the start.  A call is at "start", at
\* "read" (the stored tokens were found expired), at "exchange" (it holds
\* the refresh token of pair `read`), at "authorize", at "save" (it holds
\* pair `got`), or it is "done" or "failed".
RefreshCall(at, read, got) == [pc |-> at, read |-> read, got |-> got]

\* The refresh state after call p moved on.
Moved(p, call) == [refreshers EXCEPT !.proc[p] = call]

\* No stored access token is valid: the token file is missing, or the
\* access token of the stored pair is within the expiry buffer.
storedExpired == refreshers.store = 0 /\ refreshers.file # "valid"

\* No refresh token is stored.
noRefreshToken == refreshers.store = 0 /\ refreshers.file = "missing"

\* initialize: hasValidTokens(); QBOClient: tokenManager.getValidAccessToken()
CheckTokens ==
  /\ \E p \in DOMAIN refreshers.proc :
       /\ refreshers.proc[p].pc = "start"
       /\ refreshers' = Moved(p, RefreshCall(IF storedExpired THEN "read" ELSE "done", 0, 0))
  /\ UNCHANGED <<upVars, lookup, serverVars, tokenVars, requests, pathVars, pc, args,
                 allJobcodes, jobcodeFilter, timesheets, users, files, enriched, error,
                 calls, jobcodeMap, missing, report, sage>>

\* tokenManager.getRefreshToken(): the refresh token now in the file.
\* Without one initialize throws and QBOClient authorizes.
ReadRefreshToken ==
  /\ \E p \in DOMAIN refreshers.proc :
       /\ refreshers.proc[p].pc = "read"
       /\ refreshers' =
            IF noRefreshToken
            THEN Moved(p, RefreshCall(IF refreshers.client = "qbo" THEN "authorize"
                                      ELSE "failed", 0, 0))
            ELSE Moved(p, RefreshCall("exchange", refreshers.store, 0))
  /\ UNCHANGED <<upVars, lookup, serverVars, tokenVars, requests, pathVars, pc, args,
                 allJobcodes, jobcodeFilter, timesheets, users, files, enriched, error,
                 calls, jobcodeMap, missing, report, sage>>

\* oauth.refreshAccessToken(refreshToken) is answered with a new pair.
\* Whether the server still honours a refresh token it has exchanged
\* before is its choice.
ExchangeToken ==
  /\ \E p \in DOMAIN refreshers.proc :
       /\ refreshers.proc[p].pc = "exchange"
       /\ refreshers' =
            [Moved(p, RefreshCall("save", refreshers.proc[p].read, refreshers.issued + 1))
               EXCEPT !.issued = refreshers.issued + 1,
                      !.exchanged = refreshers.exchanged \cup {refreshers.proc[p].read},
                      !.reused = refreshers.reused
                                   \/ refreshers.proc[p].read \in refreshers.exchanged]
  /\ UNCHANGED <<upVars, lookup, serverVars, tokenVars, requests, pathVars, pc, args,
                 allJobcodes, jobcodeFilter, timesheets, users, files, enriched, error,
                 calls, jobcodeMap, missing, report, sage>>

\* The server rejects a refresh token it has exchanged before:
\* refreshAccessToken throws.  initialize lets the error through;
\* QBOClient.getValidAccessToken catches it and authorizes anew.
ExchangeRejected ==
  /\ \E p \in DOMAIN refreshers.proc :
       /\ refreshers.proc[p].pc = "exchange"
       /\ refreshers.proc[p].read \in refreshers.exchanged
       /\ refreshers' =
            [Moved(p, RefreshCall(IF refreshers.client = "qbo" THEN "authorize" ELSE "failed",
                                  refreshers.proc[p].read, 0))
               EXCEPT !.reused = TRUE]
  /\ UNCHANGED <<upVars, lookup, serverVars, tokenVars, requests, pathVars, pc, args,
                 allJobcodes, jobcodeFilter, timesheets, users, files, enriched, error,
                 calls, jobcodeMap, missing, report, sage>>

\* oauth.authorize() of QBOClient returns a new pair.
Reauthorize ==
  /\ \E p \in DOMAIN refreshers.proc :
       /\ refreshers.proc[p].pc = "authorize"
       /\ refreshers' =
            [Moved(p, RefreshCall("save", refreshers.proc[p].read, refreshers.issued + 1))
               EXCEPT !.issued = refreshers.issued + 1]
  /\ UNCHANGED <<upVars, lookup, serverVars, tokenVars, requests, pathVars, pc, args,
                 allJobcodes, jobcodeFilter, timesheets, users, files, enriched, error,
                 calls, jobcodeMap, missing, report, sage>>

\* tokenManager.saveTokens(newTokens): the file is overwritten.
WriteTokens ==
  /\ \E p \in DOMAIN refreshers.proc :
       /\ refreshers.proc[p].pc = "save"
       /\ refreshers' =
            [Moved(p, RefreshCall("done", refreshers.proc[p].read, refreshers.proc[p].got))
               EXCEPT !.store = refreshers.proc[p].got]
  /\ UNCHANGED <<upVars, lookup, serverVars, tokenVars, requests, pathVars, pc, args,
                 allJobcodes, jobcodeFilter, timesheets, users, files, enriched, error,
                 calls, jobcodeMap, missing, report, sage>>

\* MaxConcurrent tool calls of one client start; the token file holds a
\* valid pair, an expired pair, or is missing.
InitRefresh ==
  /\ InitNoServer
  /\ InitIdle
  /\ InitNoPath
  /\ upJobcodes = EmptyMap
  /\ upHidden = {}
  /\ upTimesheets = <<>>
  /\ upUsers = {}
  /\ upFiles = {}
  /\ upSupp = [users |-> TRUE, jobcodes |-> TRUE]
  /\ requests = NoRequests
  /\ \E client \in {"tsheets", "qbo"}, file \in {"valid", "expired", "missing"} :
       refreshers = [client |-> client, file |-> file, store |-> 0, issued |-> 0,
                     exchanged |-> {}, reused |-> FALSE,
                     proc |-> [p \in Procs |-> RefreshCall("start", 0, 0)]]

NextRefresh ==
  \/ CheckTokens
  \/ ReadRefreshToken
  \/ ExchangeToken
  \/ ExchangeRejected
  \/ Reauthorize
  \/ WriteTokens

SpecRefresh == InitRefresh /\ [][NextRefresh]_vars

\* ------------------------------------------- concurrent report requests
\* The local state of one call of getTimesheetsForDateRange: allJobcodes,
\* jobcodeFilter, timesheets, users and files are variables of the call.
Request(at, jobcodeId) ==
  [pc |-> at, jobcodeId |-> jobcodeId, allJobcodes |-> EmptyMap, jobcodeFilter |-> NoFilter,
   timesheets |-> <<>>, users |-> EmptyMap, files |-> EmptyMap, filesFailed |-> FALSE,
   enriched |-> <<>>]

\* A variant in which the calls share the directory of the first call.
sharedDirectory(p) == requests[1].allJobcodes

\* const allJobcodes = validated.results.jobcodes || {}: the directory of
\* call p.
directoryOf(p) == requests[p].allJobcodes

\* Step 5 is reached: the files are requested when a timesheet has
\* attachments, else the records are combined and returned.
requestFilesStep(r, ts, us, jcs) ==
  IF \E i \in 1..Len(ts) : Len(ts[i].attached_files) > 0
  THEN [r EXCEPT !.pc = "getFiles", !.timesheets = ts, !.users = us, !.allJobcodes = jcs]
  ELSE [r EXCEPT !.pc = "returned", !.timesheets = ts, !.users = us, !.allJobcodes = jcs,
                 !.enriched = enrichedTimesheets(ts, us, jcs, EmptyMap)]

\* The ids of the files request of the call.
requestFileIds(ts) ==
  LET timesheetsWithFiles == SelectSeq(ts, LAMBDA t : Len(t.attached_files) > 0)
  IN Unique(Flatten([i \in 1..Len(timesheetsWithFiles) |-> timesheetsWithFiles[i].attached_files]))

\* A call starts and asks for the job codes.
RequestStart ==
  /\ \E p \in DOMAIN requests :
       /\ requests[p].pc = "start"
       /\ requests' = [requests EXCEPT ![p].pc = "getJobcodes"]
  /\ UNCHANGED <<upVars, lookup, serverVars, tokenVars, refreshers, pathVars, pc, args,
                 allJobcodes, jobcodeFilter, timesheets, users, files, enriched, error,
                 calls, jobcodeMap, missing, report, sage>>

\* The job codes arrive at a call: its directory is built and its filter
\* resolved (step 1 and step 2 up to the timesheet request).
RequestJobcodes ==
  /\ \E p \in DOMAIN requests :
       /\ requests[p].pc = "getJobcodes"
       /\ LET f == jobcodeFilterOf(requests[p].jobcodeId, <<>>, upstreamListing)
          IN requests' =
               [requests EXCEPT ![p].allJobcodes = upstreamListing,
                                ![p].jobcodeFilter = f,
                                ![p].pc = CASE f.kind = "notfound" -> "returned"
                                            [] f.kind = "overflow" -> "failed"
                                            [] OTHER -> "getTimesheets"]
  /\ UNCHANGED <<upVars, lookup, serverVars, tokenVars, refreshers, pathVars, pc, args,
                 allJobcodes, jobcodeFilter, timesheets, users, files, enriched, error,
                 calls, jobcodeMap, missing, report, sage>>

\* The timesheets arrive at a call (steps 2 to 4).
RequestTimesheets ==
  /\ \E p \in DOMAIN requests :
       /\ requests[p].pc = "getTimesheets"
       /\ LET r == requests[p]
              ts == upstreamTimesheets(r.jobcodeFilter)
              merged == IF upSupp.jobcodes
                        THEN Assign(directoryOf(p), supplementalJobcodes(ts))
                        ELSE directoryOf(p)
          IN requests' =
               [requests EXCEPT ![p] =
                  IF Len(ts) = 0 THEN [r EXCEPT !.pc = "returned"]
                  ELSE IF upSupp.users
                  THEN requestFilesStep(r, ts, supplementalUsers(ts), merged)
                  ELSE [r EXCEPT !.pc = "getUsers", !.timesheets = ts, !.allJobcodes = merged]]
  /\ UNCHANGED <<upVars, lookup, serverVars, tokenVars, refreshers, pathVars, pc, args,
                 allJobcodes, jobcodeFilter, timesheets, users, files, enriched, error,
                 calls, jobcodeMap, missing, report, sage>>

\* The users arrive at a call (step 4, the fallback fetch).
RequestUsers ==
  /\ \E p \in DOMAIN requests :
       /\ requests[p].pc = "getUsers"
       /\ requests' =
            [requests EXCEPT ![p] =
               requestFilesStep(requests[p], requests[p].timesheets,
                                upstreamUsers(userIds(requests[p].timesheets)),
                                directoryOf(p))]
  /\ UNCHANGED <<upVars, lookup, serverVars, tokenVars, refreshers, pathVars, pc, args,
                 allJobcodes, jobcodeFilter, timesheets, users, files, enriched, error,
                 calls, jobcodeMap, missing, report, sage>>

\* The files arrive at a call (step 5) and its records are combined.
RequestFiles ==
  /\ \E p \in DOMAIN requests :
       /\ requests[p].pc = "getFiles"
       /\ LET r == requests[p]
              fetched == upstreamFiles(requestFileIds(r.timesheets))
          IN requests' =
               [requests EXCEPT ![p] =
                  [r EXCEPT !.pc = "returned", !.files = fetched,
                            !.enriched = enrichedTimesheets(r.timesheets, r.users,
                                                            directoryOf(p), fetched)]]
  /\ UNCHANGED <<upVars, lookup, serverVars, tokenVars, refreshers, pathVars, pc, args,
                 allJobcodes, jobcodeFilter, timesheets, users, files, enriched, error,
                 calls, jobcodeMap, missing, report, sage>>

\* The file request of a call fails: the catch leaves its file map empty.
RequestFilesFail ==
  /\ \E p \in DOMAIN requests :
       /\ requests[p].pc = "getFiles"
       /\ LET r == requests[p]
          IN requests' =
               [requests EXCEPT ![p] =
                  [r EXCEPT !.pc = "returned", !.filesFailed = TRUE,
                            !.enriched = enrichedTimesheets(r.timesheets, r.users,
                                                            directoryOf(p), EmptyMap)]]
  /\ UNCHANGED <<upVars, lookup, serverVars, tokenVars, refreshers, pathVars, pc, args,
                 allJobcodes, jobcodeFilter, timesheets, users, files, enriched, error,
                 calls, jobcodeMap, missing, report, sage>>

\* The job-code, timesheet or user request of a call throws.
RequestFails ==
  /\ \E p \in DOMAIN requests :
       /\ requests[p].pc \in {"getJobcodes", "getTimesheets", "getUsers"}
       /\ requests' = [requests EXCEPT ![p].pc = "failed"]
  /\ UNCHANGED <<upVars, lookup, serverVars, tokenVars, refreshers, pathVars, pc, args,
                 allJobcodes, jobcodeFilter, timesheets, users, files, enriched, error,
                 calls, jobcodeMap, missing, report, sage>>

\* MaxConcurrent report requests, each for all projects or for one job
\* code, run against one upstream.
InitRequests ==
  /\ InitNoServer
  /\ InitIdle
  /\ InitNoPath
  /\ InitEnrich
  /\ refreshers = NoRefreshers
  /\ requests \in [Procs -> {Request("start", id) : id \in {0, 2, 3}}]

NextRequests ==
  \/ RequestStart
  \/ RequestJobcodes
  \/ RequestTimesheets
  \/ RequestUsers
  \/ RequestFiles
  \/ RequestFilesFail
  \/ RequestFails

SpecRequests == InitRequests /\ [][NextRequests]_vars

\* ================================================== properties of the paths
\* The ids of the ancestor chain of job code id in root-to-leaf order, id
\* last; the empty sequence when, within n nodes, the chain meets a parent
\* the directory lacks or does not reach a root (a cycle).
RECURSIVE AncestorIds(_, _, _)
AncestorIds(id, dir, n) ==
  IF id \notin DOMAIN dir \/ n = 0 THEN <<>>
  ELSE IF dir[id].parent_id = 0 THEN <<id>>
  ELSE LET up == AncestorIds(dir[id].parent_id, dir, n - 1)
       IN IF up = <<>> THEN <<>> ELSE Append(up, id)

\* The chain of the job code under study; empty unless it is acyclic and
\* fully present.
PathChain == AncestorIds(pathJob.id, jobcodeMap, Cardinality(DOMAIN jobcodeMap))

\* "name shortCode" when the node has a short code, "name" otherwise.
Fragment(jc) ==
  IF Len(jc.short_code) > 0 THEN jc.name \o <<" ">> \o jc.short_code ELSE jc.name

\* The fragments of the chain ids, in that order, with the separator
\* between neighbours.
RECURSIVE ExpectedPath(_, _)
ExpectedPath(ids, dir) ==
  IF Len(ids) = 1 THEN Fragment(dir[ids[1]])
  ELSE ExpectedPath(SubSeq(ids, 1, Len(ids) - 1), dir)
         \o <<" ", ">", " ">> \o Fragment(dir[ids[Len(ids)]])

\* The last n ids of a chain (all of them when it has at most n).
LeafMost(ids, n) ==
  IF Len(ids) <= n THEN ids ELSE SubSeq(ids, Len(ids) - n + 1, Len(ids))

\* C4 (as stated): the path builder of the project report and those of the
\* job-code search tools terminate on every directory, cyclic parent
\* pointers included.
C4_PathBuildersTerminate ==
  /\ ~pathOut.report.hung
  /\ ~pathOut.search.hung
  /\ ~pathOut.hier.hung

RECURSIVE AncestorAt(_, _, _)
AncestorAt(id, dir, k) ==
  IF k = 0 THEN id
  ELSE LET a == AncestorAt(id, dir, k - 1)
       IN IF a \in DOMAIN dir THEN dir[a].parent_id ELSE 0

\* The parent chain of j reaches P.
ReachesParent(j, P, dir) ==
  \E k \in 1..Cardinality(DOMAIN dir) : AncestorAt(j, dir, k) = P

\* The job codes of dir whose parent chain reaches P, at any depth.
DescSet(P, dir) == {j \in DOMAIN dir : ReachesParent(j, P, dir)}

\* No job code of dir is its own ancestor.
Acyclic(dir) == \A j \in DOMAIN dir : ~ReachesParent(j, j, dir)

\* The directory has arrived and the project filter has been resolved; the
\* directory the resolver worked on is upstreamListing.
Resolved == pc \notin {"idle", "getJobcodes"} /\ error # "getJobcodes"

\* The request for timesheets carries a filter that holds at least the
\* ids S.
FetchCarries(S) ==
  /\ Len(calls) >= 2
  /\ calls[2].op = "getTimesheets"
  /\ calls[2].filtered
  /\ S \subseteq Range(calls[2].ids)

\* C1: for every acyclic directory and every job code P in it, resolving
\* the filter by direct id P passes to the timesheet fetch an id set that
\* contains P and every job code whose parent chain reaches P.
C1_DescendantInclusion ==
  (Resolved /\ args.jobcodeId \in DOMAIN upstreamListing /\ Acyclic(upstreamListing)) =>
    FetchCarries({args.jobcodeId} \cup DescSet(args.jobcodeId, upstreamListing))

\* A filter by direct id on a job code that has a grandchild.
C1_Witness ==
  /\ Resolved
  /\ args.jobcodeId \in DOMAIN upstreamListing
  /\ Acyclic(upstreamListing)
  /\ \E j \in DescSet(args.jobcodeId, upstreamListing) :
       upstreamListing[j].parent_id # args.jobcodeId
  /\ Len(calls) >= 2

\* The numeric-id shortcut applies: no direct id, and the reference parses
\* as an integer that is a key of the loaded directory.
ShortcutApplies ==
  /\ Resolved
  /\ args.jobcodeId = 0
  /\ args.jobcodeName # <<>>
  /\ parseInt(args.jobcodeName) \in DOMAIN upstreamListing

ShortcutIds ==
  {parseInt(args.jobcodeName)} \cup DescSet(parseInt(args.jobcodeName), upstreamListing)

\* C2: when the numeric-id shortcut applies (and the enumeration of the
\* descendants has returned), the filter is exactly that id and its
\* descendants, without the job codes that only match as text, and on an
\* acyclic directory the enumeration does return; the timesheets returned
\* are then the upstream timesheets logged against that id or a
\* descendant, so time logged only against a child is returned.
C2_NumericShortcut ==
  ShortcutApplies =>
    /\ Acyclic(upstreamListing) => error # "RangeError"
    /\ error # "RangeError" =>
         /\ FetchCarries(ShortcutIds)
         /\ Range(calls[2].ids) = ShortcutIds
    /\ pc \in {"tsReturned", "reported", "formatted"} =>
         [i \in 1..Len(enriched) |-> enriched[i].base] =
           SelectSeq(upTimesheets, LAMBDA t : t.jobcode_id \in ShortcutIds)

\* The reference "2" on a directory where job code 3 (whose name contains
\* "2") is no descendant of 2, and the only timesheet is logged against a
\* child of 2: it is returned.
C2_Witness ==
  /\ ShortcutApplies
  /\ pc = "tsReturned"
  /\ 3 \in (DOMAIN upstreamListing) \ ShortcutIds
  /\ Len(enriched) = 1
  /\ enriched[1].base.jobcode_id # parseInt(args.jobcodeName)
  /\ upstreamListing[enriched[1].base.jobcode_id].parent_id = parseInt(args.jobcodeName)

\* C3 (as stated): getAllDescendants terminates on every directory, also on
\* cyclic parent pointers, returning the ids found so far: resolving a
\* filter never ends in unbounded recursion.
C3_DescendantsTerminate == ~(pc = "failed" /\ error = "RangeError")

\* C10 (as stated): when a direct id that is no key of the directory and a
\* free-text reference are both supplied, an empty result is returned
\* without a timesheet fetch only if the reference matches nothing either.
C10_NameAttemptAfterAbsentId ==
  (/\ pc = "tsReturned"
   /\ Len(calls) = 1
   /\ args.jobcodeId # 0
   /\ args.jobcodeId \notin DOMAIN upstreamListing
   /\ args.jobcodeName # <<>>)
  => jobcodeFilterOf(0, args.jobcodeName, upstreamListing).kind = "notfound"

\* ============================================= properties of the enrichment
\* The request for files was made for files upstream knows, and it failed:
\* nothing was stored in files.
FileFetchFailed ==
  /\ pc \notin {"idle", "getJobcodes", "getTimesheets", "getUsers", "getFiles"}
  /\ \E k \in 1..Len(calls) :
       calls[k].op = "getFiles" /\ Range(calls[k].ids) \cap upFiles # {}
  /\ files = EmptyMap

\* C6: if the file fetch fails, getTimesheetsForDateRange still returns one
\* enriched record per fetched timesheet, each with files = [], and the
\* failure is not propagated to the caller.
C6_FileFailureTolerated ==
  /\ error # "getFiles"
  /\ FileFetchFailed =>
       /\ Len(enriched) = Len(timesheets)
       /\ Len(enriched) > 0
       /\ \A i \in 1..Len(enriched) :
            enriched[i].base = timesheets[i] /\ enriched[i].files = <<>>

\* The file fetch has failed and getTimesheetsForDateRange has returned
\* timesheets that name attachments.
C6_Witness ==
  /\ FileFetchFailed
  /\ pc = "tsReturned"
  /\ error = "none"
  /\ \E i \in 1..Len(enriched) : Len(enriched[i].base.attached_files) > 0

\* =================================================== properties of the report
\* C7: whenever the pipeline yields no timesheets, getProjectReport returns
\* a report with totalEntries 0, totalHours 0 and empty timeActivities and
\* attachments and raises no error; aggregating it yields empty entries,
\* employeeSummaries and dailySummaries and totalHours 0.
C7_EmptyResultIsNoError ==
  /\ (pc = "tsReturned" /\ Len(enriched) = 0) => error = "none"
  /\ (pc \in {"reported", "formatted"} /\ Len(enriched) = 0) =>
       /\ error = "none"
       /\ report.totalEntries = 0
       /\ report.totalHours = 0
       /\ report.timeActivities = <<>>
       /\ report.attachments = <<>>
  /\ (pc = "formatted" /\ Len(enriched) = 0) =>
       /\ sage.entries = <<>>
       /\ sage.employeeSummaries = <<>>
       /\ sage.dailySummaries = <<>>
       /\ sage.totalHours = 0

\* The reference matched no job code, and the empty report was aggregated.
C7_Witness ==
  /\ pc = "formatted"
  /\ Len(enriched) = 0
  /\ args.jobcodeName # <<>>
  /\ Len(calls) = 1

\* The aggregation has run on the report of the timesheets.
Aggregated == pc = "formatted" /\ Len(enriched) > 0

\* The minutes of all entries.
TotalMinutes == SumSeq([i \in 1..Len(sage.entries) |-> sage.entries[i].hours])

\* h hundredths of an hour is m minutes rounded to 2 decimals of an hour.
IsRounded(h, m) == 60 * h - 100 * m \in (0 - 30)..30

SumOfTotals(summaries) == SumSeq([i \in 1..Len(summaries) |-> summaries[i].totalHours])

Distance(a, b) == IF a >= b THEN a - b ELSE b - a

\* C8 (as stated): totalHours is the sum of the entries' hours rounded to 2
\* decimals, and it differs by at most 0.01 from the sum of the employee
\* totals and from the sum of the daily totals, for any number of
\* employees and dates.
C8_TotalsWithinOneHundredth ==
  Aggregated =>
    /\ IsRounded(sage.totalHours, TotalMinutes)
    /\ Distance(sage.totalHours, SumOfTotals(sage.employeeSummaries)) <= 1
    /\ Distance(sage.totalHours, SumOfTotals(sage.dailySummaries)) <= 1

\* C8 (amended): totalHours is the sum of the entries' unrounded hours,
\* rounded to 2 decimals; every employee and daily total is the sum of its
\* group's hours rounded to 2 decimals; so the sum of n such totals differs
\* from totalHours by at most (n + 1) / 3 hundredths: by nothing for one
\* group and by at most 0.01 for up to four groups.
C8_TotalsWithinGroupBound ==
  Aggregated =>
    /\ IsRounded(sage.totalHours, TotalMinutes)
    /\ \A k \in 1..Len(sage.employeeSummaries) :
         LET g == sage.employeeSummaries[k]
         IN IsRounded(g.totalHours, SumSeq([i \in 1..Len(g.entries) |-> g.entries[i].hours]))
    /\ \A k \in 1..Len(sage.dailySummaries) :
         LET g == sage.dailySummaries[k]
         IN IsRounded(g.totalHours, SumSeq([i \in 1..Len(g.entries) |-> g.entries[i].hours]))
    /\ 3 * Distance(sage.totalHours, SumOfTotals(sage.employeeSummaries))
         <= Len(sage.employeeSummaries) + 1
    /\ 3 * Distance(sage.totalHours, SumOfTotals(sage.dailySummaries))
         <= Len(sage.dailySummaries) + 1

\* Five employees, and the sum of their totals is 0.02 off totalHours.
C8_Witness ==
  /\ Aggregated
  /\ Len(sage.employeeSummaries) = 5
  /\ Distance(sage.totalHours, SumOfTotals(sage.employeeSummaries)) = 2

\* C9 (as stated): the hour/minute decomposition of every duration yields
\* minutes between 0 and 59.
C9_MinutesBelowSixty ==
  \A i \in 1..Len(report.timeActivities) : report.timeActivities[i].minutes \in 0..59

\* ============================================ properties of name matching
\* Resolution reaches free-text matching: no direct id, and the reference
\* does not parse as an integer that is a key of the loaded directory.
FreeTextApplies ==
  /\ Resolved
  /\ args.jobcodeId = 0
  /\ args.jobcodeName # <<>>
  /\ parseInt(args.jobcodeName) \notin DOMAIN upstreamListing

\* Characters equal up to case.
SameLetter(a, b) ==
  a = b \/ \E i \in 1..26 : {a, b} \subseteq {LowerLetters[i], UpperLetters[i]}

\* hay contains needle, compared case-insensitively.
ContainsIgnoringCase(hay, needle) ==
  \E k \in 0..(Len(hay) - Len(needle)) :
    \A i \in 1..Len(needle) : SameLetter(hay[k + i], needle[i])

\* The job codes whose name or short code contains the reference.
TextMatches ==
  {j \in DOMAIN upstreamListing :
     \/ ContainsIgnoringCase(upstreamListing[j].name, args.jobcodeName)
     \/ ContainsIgnoringCase(upstreamListing[j].short_code, args.jobcodeName)}

TextMatchIds ==
  TextMatches \cup UNION {DescSet(m, upstreamListing) : m \in TextMatches}

\* C11: when resolution reaches free-text matching, the filter is exactly
\* the job codes whose name or short code contains the reference, compared
\* case-insensitively, plus the descendants of each (on an acyclic
\* directory their enumeration returns); when no job code matches, an empty
\* list is returned and no timesheet, user or file fetch is issued.
C11_NameMatching ==
  FreeTextApplies =>
    /\ Acyclic(upstreamListing) => error # "RangeError"
    /\ (TextMatches # {} /\ error # "RangeError") =>
         /\ FetchCarries(TextMatchIds)
         /\ Range(calls[2].ids) = TextMatchIds
    /\ TextMatches = {} =>
         /\ pc \in {"tsReturned", "reported", "formatted"}
         /\ Len(calls) = 1
         /\ enriched = <<>>
         /\ error = "none"

\* The reference "00" matches job codes by their short codes only, and a
\* job code that does not match is passed as a descendant of one that does.
C11_Witness ==
  /\ FreeTextApplies
  /\ args.jobcodeName = <<"0", "0">>
  /\ TextMatches # {}
  /\ TextMatchIds # TextMatches
  /\ Len(calls) >= 2

\* ================================================= properties of NoFilter
\* Neither a direct id nor a non-empty reference is supplied.
NoReference == Resolved /\ args.jobcodeId = 0 /\ args.jobcodeName = <<>>

\* C12: without direct id and without free-text reference the timesheet
\* fetch is issued with no job-code constraint, whatever the directory
\* contains, and every timesheet upstream returns is enriched and returned.
C12_NoFilter ==
  NoReference =>
    /\ error # "RangeError"
    /\ Len(calls) >= 2
    /\ calls[2].op = "getTimesheets"
    /\ ~calls[2].filtered
    /\ pc \in {"tsReturned", "reported", "formatted"} =>
         [i \in 1..Len(enriched) |-> enriched[i].base] = upTimesheets

\* Timesheets are returned of which one is logged against a job code the
\* directory does not hold.
C12_Witness ==
  /\ NoReference
  /\ pc = "tsReturned"
  /\ \E i \in 1..Len(enriched) : enriched[i].base.jobcode_id \notin DOMAIN upstreamListing

\* ======================================== properties of upstream failures
\* C13 (as stated): a failure of the explicit user fetch is recovered
\* locally and does not abort the call.
C13_UserFailureTolerated == ~(pc = "failed" /\ error = "getUsers")

\* The requests of kind op made so far.
CallsOf(op) == {k \in 1..Len(calls) : calls[k].op = op}

\* The directory load and the timesheet fetch are each attempted once; a
\* failure of either leaves nothing enriched and nothing requested after
\* the failed request.
FailsWithoutRetry ==
  /\ Cardinality(CallsOf("getTimesheets")) <= 1
  /\ Len(calls) >= 2 => calls[2].op = "getTimesheets"
  /\ (pc = "failed" /\ error = "getJobcodes" /\ timesheets = <<>>) =>
       /\ Len(calls) = 1
       /\ enriched = <<>>
  /\ (pc = "failed" /\ error = "getTimesheets") =>
       /\ Len(calls) = 2
       /\ enriched = <<>>
       /\ timesheets = <<>>

\* C14: when the directory load or the timesheet fetch fails,
\* getTimesheetsForDateRange fails with that error, returns no partial
\* result and issues no further upstream call: the failed call is not
\* attempted again and no step follows the failure.
C14_FailurePropagatesWithoutRetry ==
  [](FailsWithoutRetry) /\ [][pc # "failed"]_vars

\* The filtered timesheet fetch has failed.
C14_Witness ==
  /\ pc = "failed"
  /\ error = "getTimesheets"
  /\ Len(calls) = 2
  /\ calls[2].filtered

\* ============================================= properties of format_sage
\* Every time activity of the report has its date and its employee name.
WellFormed == \A i \in 1..Len(report.timeActivities) : ~Malformed(report.timeActivities[i])

\* The place of a letter in the alphabet, without regard to case (0: none).
AlphabetPlace(c) ==
  IF \E i \in 1..26 : c \in {LowerLetters[i], UpperLetters[i]}
  THEN CHOOSE i \in 1..26 : c \in {LowerLetters[i], UpperLetters[i]}
  ELSE 0

\* Name a comes before name b in the alphabet, or is equal to it.
RECURSIVE AlphabeticalLeq(_, _)
AlphabeticalLeq(a, b) ==
  IF a = <<>> THEN TRUE
  ELSE IF b = <<>> THEN FALSE
  ELSE IF AlphabetPlace(a[1]) # AlphabetPlace(b[1])
       THEN AlphabetPlace(a[1]) < AlphabetPlace(b[1])
       ELSE AlphabeticalLeq(Tail(a), Tail(b))

\* Entry x may stand before entry y: earlier date, or same date and name
\* not later in the alphabet.
InReportOrder(x, y) ==
  \/ x.date < y.date
  \/ x.date = y.date /\ AlphabeticalLeq(x.employeeName, y.employeeName)

\* The entries are the time activities of the report, each once
\* (notes holds the number of the activity).
EntriesRearranged ==
  /\ Len(sage.entries) = Len(report.timeActivities)
  /\ \A i \in 1..Len(report.timeActivities) :
       \E k \in 1..Len(sage.entries) :
         /\ sage.entries[k].notes = report.timeActivities[i].description
         /\ sage.entries[k].date = report.timeActivities[i].date
         /\ sage.entries[k].employeeName = report.timeActivities[i].employeeName

\* C15: for every input order of well-formed time activities formatSage
\* returns them as entries ordered by date ascending and, within equal
\* dates, by employee name ascending; dates [02, 01] for [Bob, Alice] come
\* out as 01 then 02.
C15_SortOrder ==
  (pc = "formatted" /\ WellFormed /\ Len(report.timeActivities) > 0) =>
    /\ EntriesRearranged
    /\ \A i, j \in 1..Len(sage.entries) :
         i < j => InReportOrder(sage.entries[i], sage.entries[j])
    /\ ([i \in 1..Len(report.timeActivities) |->
           <<report.timeActivities[i].date, report.timeActivities[i].employeeName>>]
          = << <<2, <<"B", "o", "b">> >>, <<1, <<"A", "l", "i", "c", "e">> >> >>)
       => [i \in 1..Len(sage.entries) |-> sage.entries[i].date] = <<1, 2>>

\* Three well-formed activities given latest date first, two of them on
\* the same date with the names in descending order.
C15_Witness ==
  /\ pc = "formatted"
  /\ WellFormed
  /\ Len(report.timeActivities) = 3
  /\ report.timeActivities[1].date > report.timeActivities[2].date
  /\ report.timeActivities[2].date = report.timeActivities[3].date
  /\ report.timeActivities[2].employeeName = <<"B", "o", "b">>
  /\ report.timeActivities[3].employeeName = <<"A", "l", "i", "c", "e">>

\* The employee names of a list of entries or of summaries.
EntryNames(entries) == [i \in 1..Len(entries) |-> entries[i].employeeName]
SummaryNames == [k \in 1..Len(sage.employeeSummaries) |-> sage.employeeSummaries[k].name]

\* Each summary holds the entries of its employee, in the order in which
\* they stand in the entries of the report.
SummariesKeepGlobalOrder ==
  \A k \in 1..Len(sage.employeeSummaries) :
    sage.employeeSummaries[k].entries =
      SelectSeq(sage.entries,
                LAMBDA e : e.employeeName = sage.employeeSummaries[k].name)

\* The claim as stated: the summaries follow the first occurrence of the
\* employees in the sorted entries.
C16_FirstOccurrenceOrder ==
  (pc = "formatted" /\ WellFormed) =>
    /\ SummaryNames = Unique(EntryNames(sage.entries))
    /\ SummariesKeepGlobalOrder

\* C16: employeeSummaries holds one summary per employee of the entries,
\* listed by employee name ascending (an absent name compared as the text
\* "undefined"), and each summary's entry list keeps the global date order.
C16_SummariesByName ==
  pc = "formatted" =>
    /\ Range(SummaryNames) = Range(EntryNames(sage.entries))
    /\ \A k, l \in 1..Len(SummaryNames) :
         k < l => /\ SummaryNames[k] # SummaryNames[l]
                  /\ AlphabeticalLeq(stringArg(SummaryNames[k]), stringArg(SummaryNames[l]))
    /\ SummariesKeepGlobalOrder

\* Bob's first entry stands before Alice's first entry in the sorted
\* entries, and both have a summary.
C16_Witness ==
  /\ pc = "formatted"
  /\ WellFormed
  /\ Len(sage.entries) = 3
  /\ sage.entries[1].employeeName = <<"B", "o", "b">>
  /\ sage.entries[2].employeeName = <<"A", "l", "i", "c", "e">>
  /\ Len(sage.employeeSummaries) = 2

\* C17: formatSage given an entry that lacks its date or its employee name
\* raises no error and files the entry under an "Unknown" key: no call ends
\* in a TypeError, and no summary is keyed by the absent value itself.
C17_MalformedInUnknownBucket ==
  /\ error # "TypeError"
  /\ pc = "formatted" =>
       /\ \A k \in 1..Len(sage.employeeSummaries) : sage.employeeSummaries[k].name # NoString
       /\ \A k \in 1..Len(sage.dailySummaries) : sage.dailySummaries[k].date # NoDate

\* ================================= properties of the single-match workflows
\* The queries that fetch the details or the time activities of a project.
DetailQueries ==
  SelectSeq(calls, LAMBDA c : c.op \in {"getProjectWithDetails", "queryTimeActivities"})

\* The workflow has looked its reference up: the search has answered.
LookedUp == lookup.kind # "none" /\ args.jobcodeId = 0

\* The reference of getProjectDetails is free text: it does not parse as an
\* integer that is the id of a job code.
FreeTextLookup ==
  /\ LookedUp
  /\ calls[1].op = "searchJobcodes"
  /\ parseInt(args.jobcodeName) \notin DOMAIN upJobcodes

\* C18: in a workflow that requires a single match, a reference for which
\* the search returns more than one candidate ends in a failure that lists
\* every candidate, and no details or time-activity query is issued; a
\* reference with exactly one candidate resolves to that candidate, for
\* which alone the query is issued.  For getProjectDetails the candidates
\* of a free-text reference are the job codes whose name or short code
\* contains it, compared case-insensitively.
C18_AmbiguousReference ==
  LookedUp =>
    /\ Len(lookup.candidates) > 1 =>
         /\ lookup.kind = "ambiguous"
         /\ pc \in {"detailed", "failed"}
         /\ pc = "failed" => error = "Multiple jobs found"
         /\ Len(lookup.listed) = Len(lookup.candidates)
         /\ \A i \in 1..Len(lookup.candidates) :
              includes(lookup.listed[i], lookup.candidates[i].name)
         /\ DetailQueries = <<>>
    /\ Len(lookup.candidates) = 1 =>
         /\ lookup.kind = "resolved"
         /\ lookup.id = lookup.candidates[1].id
         /\ DetailQueries \in {<<Call("getProjectWithDetails", <<lookup.id>>, TRUE)>>,
                               <<Call("queryTimeActivities", <<lookup.id>>, TRUE)>>}
    /\ FreeTextLookup =>
         {lookup.candidates[i].id : i \in 1..Len(lookup.candidates)} = TextMatches

\* getProjectDetails with a name that two job codes contain has returned.
C18_Witness ==
  /\ pc = "detailed"
  /\ FreeTextLookup
  /\ parseInt(args.jobcodeName) = NaN
  /\ Len(lookup.candidates) = 2
  /\ lookup.kind = "ambiguous"

\* ============================================ properties of the access token
\* C20: with a refresh token stored, no request of the TimeSheets client
\* fails with "No access token available": an expired access token is
\* refreshed and the request is sent.
C20_ExpiredTokenRefreshed ==
  error = "No access token available" => ~getRefreshToken(tokens)

\* ============================================== properties of the MCP server
\* Every call received so far, but the one being handled, has exactly one
\* response, and a response is an isError result exactly when it carries a
\* failure.
OneResponsePerCall ==
  /\ Len(responses) = IF pc = "waiting" THEN callNo ELSE callNo - 1
  /\ \A k \in 1..Len(responses) :
       /\ responses[k].call = k
       /\ responses[k].isError <=> responses[k].text # "result"

\* C19: every tool call ends in exactly one response, the result or an
\* isError result carrying the failure, and no call is left unanswered:
\* the handler is never inside a tool that does not return.
C19_ToolCallBoundary == OneResponsePerCall /\ pc # "hung"

\* ========================================= properties of the enriched records
\* Timesheets were fetched and step 6 has combined them.
Combined ==
  /\ Len(timesheets) > 0
  /\ pc \notin {"getUsers", "getFiles"}
  /\ ~(pc = "failed" /\ error = "getUsers")

\* The File records of the ids that the map holds, in the order of ids.
RECURSIVE PresentFiles(_, _)
PresentFiles(ids, map) ==
  IF ids = <<>> THEN <<>>
  ELSE IF Head(ids) \in DOMAIN map
       THEN <<map[Head(ids)]>> \o PresentFiles(Tail(ids), map)
       ELSE PresentFiles(Tail(ids), map)

\* C28: in every enriched record, files is the sequence of the File records
\* of the attached_files ids present in the fetched file map, in the order
\* of attached_files; an id the map lacks contributes nothing, and an entry
\* without attached_files gets files = [].
C28_FileResolution ==
  Combined =>
    \A i \in 1..Len(enriched) :
      /\ enriched[i].files = PresentFiles(enriched[i].base.attached_files, files)
      /\ \A k \in 1..Len(enriched[i].files) : enriched[i].files[k] # Undefined
      /\ enriched[i].base.attached_files = <<>> => enriched[i].files = <<>>

\* The files were fetched, a record names two files of which upstream knows
\* one, and another record names none.
C28_Witness ==
  /\ Combined
  /\ files # EmptyMap
  /\ \E i \in 1..Len(enriched) :
       Len(enriched[i].base.attached_files) = 2 /\ Len(enriched[i].files) = 1
  /\ \E i \in 1..Len(enriched) : enriched[i].base.attached_files = <<>>

\* C30: getTimesheetsForDateRange returns one enriched record per fetched
\* timesheet, in their order, whose base fields are the fetched ones; user,
\* jobcode and files are looked up by the entry's own user_id, jobcode_id
\* and attached_files.
C30_BaseRecordUnchanged ==
  Combined =>
    /\ Len(enriched) = Len(timesheets)
    /\ timesheets = upstreamTimesheets(jobcodeFilter)
    /\ \A i \in 1..Len(enriched) :
         /\ enriched[i].base = timesheets[i]
         /\ DOMAIN enriched[i] = {"base", "user", "jobcode", "files"}
         /\ enriched[i].user =
              IF timesheets[i].user_id \in DOMAIN users
              THEN users[timesheets[i].user_id] ELSE Undefined
         /\ enriched[i].jobcode =
              IF timesheets[i].jobcode_id \in DOMAIN allJobcodes
              THEN allJobcodes[timesheets[i].jobcode_id] ELSE Undefined
         /\ \A k \in 1..Len(enriched[i].files) :
              enriched[i].files[k].id \in Range(timesheets[i].attached_files)

\* Two timesheets of different users and job codes were enriched, both
\* users resolved.
C30_Witness ==
  /\ Combined
  /\ Len(enriched) = 2
  /\ enriched[1].base.user_id # enriched[2].base.user_id
  /\ enriched[1].base.jobcode_id # enriched[2].base.jobcode_id
  /\ enriched[1].user # Undefined /\ enriched[2].user # Undefined
  /\ enriched[1].user # enriched[2].user

\* The timesheet response has arrived and has been looked at.
TimesheetsArrived ==
  /\ CallsOf("getTimesheets") # {}
  /\ pc # "getTimesheets"
  /\ ~(pc = "failed" /\ error = "getTimesheets")

\* The user ids of the timesheets upstream returns for the filter.
FetchedUserIds ==
  {upstreamTimesheets(jobcodeFilter)[i].user_id :
     i \in 1..Len(upstreamTimesheets(jobcodeFilter))}

\* C27: once the timesheet response has arrived, users were requested
\* explicitly exactly when the response held timesheets and carried no
\* supplemental users; the one request names the distinct user ids of the
\* fetched timesheets, each once; an empty timesheet result leaves the
\* users neither requested nor read.
C27_UserResolution ==
  /\ CallsOf("getUsers") # {} => TimesheetsArrived
  /\ TimesheetsArrived =>
       /\ CallsOf("getUsers") # {} <=>
            (FetchedUserIds # {} /\ ~upSupp.users)
       /\ Cardinality(CallsOf("getUsers")) <= 1
       /\ \A k \in CallsOf("getUsers") :
            /\ Range(calls[k].ids) = FetchedUserIds
            /\ Len(calls[k].ids) = Cardinality(FetchedUserIds)
       /\ FetchedUserIds = {} => users = EmptyMap

\* Users were requested for two timesheets of different users and have
\* arrived.
C27_Witness ==
  /\ TimesheetsArrived
  /\ Cardinality(FetchedUserIds) = 2
  /\ ~upSupp.users
  /\ CallsOf("getUsers") # {}
  /\ pc = "tsReturned"

\* ============================================== properties of the backfill
\* The fragments of jc and of its ancestors as far as the directory
\* resolves them, within n hops, the highest resolved ancestor first.
RECURSIVE ResolvedFragments(_, _, _)
ResolvedFragments(jc, dir, n) ==
  IF jc.parent_id = 0 \/ jc.parent_id \notin DOMAIN dir \/ n = 0
  THEN <<Fragment(jc)>>
  ELSE Append(ResolvedFragments(dir[jc.parent_id], dir, n - 1), Fragment(jc))

\* The fragments joined by the separator.
RECURSIVE Joined(_)
Joined(fragments) ==
  IF Len(fragments) = 1 THEN fragments[1]
  ELSE Joined(SubSeq(fragments, 1, Len(fragments) - 1))
         \o <<" ", ">", " ">> \o fragments[Len(fragments)]

\* The id at which the walk from jc stops unresolved (0: it ends at a root).
RECURSIVE UnresolvedId(_, _, _)
UnresolvedId(jc, dir, n) ==
  IF jc.parent_id = 0 \/ n = 0 THEN 0
  ELSE IF jc.parent_id \notin DOMAIN dir THEN jc.parent_id
  ELSE UnresolvedId(dir[jc.parent_id], dir, n - 1)

\* The report of a non-empty list of timesheets has been returned.
ReportedEntries == pc \in {"reported", "formatted"} /\ Len(enriched) > 0

\* C23: a parent id without entry in the directory, also after the search
\* for it found nothing, is no error: the walk never fails on it and hangs
\* on cyclic parent links only,
\* the report is produced, the path of each entry holds the fragments from
\* the highest resolved ancestor down to the leaf, and the directory holds
\* nothing but job codes upstream returned, so the unresolved id stays
\* absent.
C23_MissingParentTolerated ==
  /\ pc = "hung" => ~Acyclic(upJobcodes)
  /\ pc = "failed" =>
       error \in {"getJobcodes", "getTimesheets", "getUsers", "searchJobcodes", "RangeError"}
  /\ ReportedEntries =>
       /\ Len(report.timeActivities) = Len(enriched)
       /\ \A id \in DOMAIN jobcodeMap :
            id \in DOMAIN upJobcodes /\ jobcodeMap[id] = upJobcodes[id]
       /\ \A i \in 1..Len(enriched) :
            enriched[i].jobcode # Undefined =>
              /\ report.timeActivities[i].jobName =
                   Joined(ResolvedFragments(enriched[i].jobcode, jobcodeMap, MaxId))
              /\ UnresolvedId(enriched[i].jobcode, jobcodeMap, MaxId) \notin DOMAIN jobcodeMap

\* The report was returned with an entry whose job code has a parent that
\* was searched for and is not in the directory.
C23_Witness ==
  /\ ReportedEntries
  /\ \E i \in 1..Len(enriched) :
       /\ enriched[i].jobcode # Undefined
       /\ UnresolvedId(enriched[i].jobcode, jobcodeMap, MaxId) = enriched[i].jobcode.parent_id
       /\ enriched[i].jobcode.parent_id # 0
       /\ \E k \in CallsOf("searchJobcodes") :
            calls[k].ids = <<enriched[i].jobcode.parent_id>>

\* Every search for a missing parent was answered by the fetch by id.
FetchedById ==
  \A k \in CallsOf("searchJobcodes") : calls[k].filtered

\* C25 (as stated): when upstream returns each missing ancestor by id, the
\* job path of every entry of the report holds every ancestor of the
\* entry's job code up to the root, also the ancestors more than one level
\* up that the bulk load lacked.
C25_BackfillCompleteness ==
  (ReportedEntries /\ FetchedById /\ Acyclic(upJobcodes)) =>
    \A i \in 1..Len(enriched) :
      (/\ enriched[i].jobcode # Undefined
       /\ AncestorIds(enriched[i].jobcode.id, upJobcodes, MaxId) # <<>>) =>
        report.timeActivities[i].jobName =
          ExpectedPath(AncestorIds(enriched[i].jobcode.id, upJobcodes, MaxId), upJobcodes)

\* The requests that fetch job codes by id for the backfill.
BackfillFetches == {k \in CallsOf("searchJobcodes") : calls[k].filtered}

\* C26 (as stated): the backfill of the missing parents issues one fetch by
\* id, which names all the missing ids, however many are missing.
C26_BatchedBackfill ==
  /\ Cardinality(BackfillFetches) <= 1
  /\ ReportedEntries =>
       \A k \in BackfillFetches :
         Range(calls[k].ids) = Range(missingParentIds(enriched, upstreamListing))

\* ============================================= properties of the summaries
\* How many elements of the sequence s equal e.
Occurrences(e, s) == Cardinality({i \in 1..Len(s) : s[i] = e})

\* The summaries split the entries by key: no two summaries have the same
\* key, none is empty, each holds entries of its own key only, and every
\* entry occurs in the summary of its key as often as among the entries
\* and so in no other.  keys[k] is the key of summary k, keyOf[i] the key
\* of entry i.
SplitBy(entries, summaries, keys, keyOf) ==
  /\ \A k, l \in 1..Len(summaries) : keys[k] = keys[l] => k = l
  /\ \A k \in 1..Len(summaries) :
       /\ Len(summaries[k].entries) > 0
       /\ \A i \in 1..Len(summaries[k].entries) :
            \E j \in 1..Len(entries) :
              entries[j] = summaries[k].entries[i] /\ keyOf[j] = keys[k]
  /\ \A j \in 1..Len(entries) :
       \E k \in 1..Len(summaries) :
         /\ keys[k] = keyOf[j]
         /\ Occurrences(entries[j], summaries[k].entries) = Occurrences(entries[j], entries)
  /\ SumSeq([k \in 1..Len(summaries) |-> Len(summaries[k].entries)]) = Len(entries)

\* The total of every summary is the sum of the hours of its own entries
\* rounded to 2 decimals.
OwnTotals(summaries) ==
  \A k \in 1..Len(summaries) :
    IsRounded(summaries[k].totalHours,
              SumSeq([i \in 1..Len(summaries[k].entries) |-> summaries[k].entries[i].hours]))

\* C29: every entry is in exactly one employee summary, that of its
\* employeeName, and in exactly one daily summary, that of its date; no
\* summary is empty; each summary's totalHours is the sum of the hours of
\* its own entries rounded to 2 decimals.
C29_SummaryPartition ==
  Aggregated =>
    /\ SplitBy(sage.entries, sage.employeeSummaries,
               [k \in 1..Len(sage.employeeSummaries) |-> sage.employeeSummaries[k].name],
               [j \in 1..Len(sage.entries) |-> sage.entries[j].employeeName])
    /\ SplitBy(sage.entries, sage.dailySummaries,
               [k \in 1..Len(sage.dailySummaries) |-> sage.dailySummaries[k].date],
               [j \in 1..Len(sage.entries) |-> sage.entries[j].date])
    /\ OwnTotals(sage.employeeSummaries)
    /\ OwnTotals(sage.dailySummaries)

\* Two dates and two employees, one of them with several entries whose
\* hours do not add up to a whole hundredth.
C29_Witness ==
  /\ Aggregated
  /\ Len(sage.dailySummaries) = 2
  /\ Len(sage.employeeSummaries) >= 2
  /\ \E k \in 1..Len(sage.employeeSummaries) :
       LET g == sage.employeeSummaries[k]
       IN /\ Len(g.entries) >= 2
          /\ (100 * SumSeq([i \in 1..Len(g.entries) |-> g.entries[i].hours])) % 60 # 0

\* =========================================== properties of the directories
\* An id that the directory holds before and after the step keeps its
\* entry.
EntriesKept(before, after) ==
  \A id \in DOMAIN before \cap DOMAIN after : after[id] = before[id]

\* C22 (as stated): once loaded, the directory of getTimesheetsForDateRange
\* and the one of getProjectReport only gain entries for absent ids, by
\* the merge of the supplemental job codes and by the backfill of missing
\* parents; no step replaces or changes the entry of an id they hold.
C22_EntriesNeverReplaced ==
  [][/\ EntriesKept(allJobcodes, allJobcodes')
     /\ EntriesKept(jobcodeMap, jobcodeMap')
     /\ DOMAIN allJobcodes \subseteq DOMAIN allJobcodes'
     /\ DOMAIN jobcodeMap \subseteq DOMAIN jobcodeMap']_vars

\* ======================================= properties of concurrent tool calls
\* Every concurrent call has ended.
RefreshesEnded ==
  /\ refreshers.proc # <<>>
  /\ \A p \in DOMAIN refreshers.proc : refreshers.proc[p].pc \in {"done", "failed"}

\* C21 (as stated): when concurrent tool calls find the access token
\* expired, no call presents a refresh token that another call has already
\* exchanged, and once the calls have ended the token file holds the pair
\* issued last.
C21_TokenOperationsThreadSafe ==
  refreshers.file = "expired" =>
    /\ ~refreshers.reused
    /\ RefreshesEnded => refreshers.store = refreshers.issued

\* What getTimesheetsForDateRange returns for jobcodeId when it runs alone
\* against the upstream data, given whether its file request fails.
SoloTimesheets(jobcodeId) ==
  upstreamTimesheets(jobcodeFilterOf(jobcodeId, <<>>, upstreamListing))

SoloDirectory(jobcodeId) ==
  IF upSupp.jobcodes
  THEN Assign(upstreamListing, supplementalJobcodes(SoloTimesheets(jobcodeId)))
  ELSE upstreamListing

SoloUsers(jobcodeId) ==
  IF upSupp.users THEN supplementalUsers(SoloTimesheets(jobcodeId))
  ELSE upstreamUsers(userIds(SoloTimesheets(jobcodeId)))

SoloFiles(jobcodeId, filesFailed) ==
  IF filesFailed THEN EmptyMap
  ELSE [f \in upFiles \cap UNION {Range(SoloTimesheets(jobcodeId)[i].attached_files) :
                                   i \in 1..Len(SoloTimesheets(jobcodeId))} |-> File(f)]

SoloResult(jobcodeId, filesFailed) ==
  IF jobcodeFilterOf(jobcodeId, <<>>, upstreamListing).kind = "notfound" THEN <<>>
  ELSE enrichedTimesheets(SoloTimesheets(jobcodeId), SoloUsers(jobcodeId),
                          SoloDirectory(jobcodeId), SoloFiles(jobcodeId, filesFailed))

\* C24: under every interleaving of the upstream calls of concurrent report
\* requests, each request that returns has built its own directory and
\* returns what it returns when it runs alone against the same upstream
\* data.
C24_RequestsIsolated ==
  \A p \in DOMAIN requests :
    requests[p].pc = "returned" =>
      /\ requests[p].enriched = SoloResult(requests[p].jobcodeId, requests[p].filesFailed)
      /\ Len(requests[p].enriched) > 0 =>
           requests[p].allJobcodes = SoloDirectory(requests[p].jobcodeId)

\* The first request has returned timesheets while the second, with
\* another filter and another directory, waits for its files.
C24_Witness ==
  /\ DOMAIN requests = Procs
  /\ requests[1].pc = "returned"
  /\ Len(requests[1].enriched) > 0
  /\ requests[2].pc = "getFiles"
  /\ requests[2].jobcodeId # requests[1].jobcodeId
  /\ requests[2].allJobcodes # requests[1].allJobcodes

====
